---- MODULE Spec2Model ----
(***************************************************************************)
(* Matchmaking queue, draft state machine and rating engine of drafty      *)
(* (cloud functions joinQueue, leaveQueue, tryMatchPlayers, setDraftReady, *)
(* makeDraftAction, timeoutDraftAction, initializePlayerMMR and            *)
(* submitMatchResult).  Documents of the store are values of the           *)
(* variables; a cloud function that reads and later writes without a       *)
(* transaction is split at its awaits, a transaction is one step.          *)
(***************************************************************************)
EXTENDS Integers, Sequences, FiniteSets, TLC

\* ------------------------------------------------------------------ bounds
\* cloud-function invocations that may be in progress at the same time
MaxInflight == 2
\* players of the draft under study whose ready flag is still false at Init
MaxUnready == 2
\* size of the champion catalogue
NumChampions == 17
\* seconds by which one Tick advances the server clock
TickSeconds == 30
\* draft sessions the store may hold
MaxDrafts == 3
\* phases a session may advance while a submission sent earlier is pending
MaxLag == 1
\* queue entries written after Init (joinedAt is a logical clock)
MaxJoins == 3

\* submissions of a match result under study
MaxMatches == 3

\* ------------------------------------------------------------------ program constants
PhaseTimeLimit == 30
DefaultMmr == 800

Roles == <<"top", "jungle", "mid", "adc", "support">>
validRoles == {Roles[i] : i \in DOMAIN Roles}

\* championId null / undefined
NoChampion == 0
Champions == 1..NumChampions

\* ------------------------------------------------------------------ store
VARIABLES
  queue,      \* collection 'queue': identity -> entry or NoEntry
  drafts,     \* collection 'drafts': sequence of sessions, draftId = index
  calls,      \* cloud-function invocations in progress, one per slot
  lastCall,   \* response of the invocation that returned last
  readyOk,    \* identities that had a setDraftReady call of draft 1 return success
  queueClock, \* server timestamp source for joinedAt
  ratings,    \* collection 'mmr': identity -> rating document or NoRating
  matches,    \* collection 'matches': sequence of match documents, matchId = index
  calc        \* one evaluation of the rating engine: its arguments and results

vars == <<queue, drafts, calls, lastCall, readyOk, queueClock, ratings, matches, calc>>

\* ------------------------------------------------------------------ identities
\* authenticated users; 1..10 fill the draft under study, 9..12 act on the queue
Identities == 1..12
NoEntry == [odId |-> 0, role |-> "none", mmr |-> 0, joinedAt |-> 0]

\* the rating engine has not been given arguments
NoCalc == [given |-> FALSE]

\* a user without a document in collection 'mmr'
NoRating == [mmr |-> 0, gamesPlayed |-> 0, placementGamesPlayed |-> 0, isPlaced |-> FALSE,
             wins |-> 0, losses |-> 0, peakMmr |-> 0, history |-> <<>>, exists |-> FALSE]

\* collection 'mmr' as joinQueue reads it: the stored rating of each user, 0
\* when the document is absent; no match result is submitted while the queue
\* and the draft are studied, so these ratings stay as they are
mmrDocs == <<800, 1000, 900, 900, 1200, 1000, 0, 0, 1000, 1100, 900, 700>>

\* the role each user asks for when joining
RequestedRole == <<"top", "top", "jungle", "jungle", "mid", "mid", "adc", "adc",
                   "support", "support", "support", "top">>

\* const mmr = mmrDoc.exists ? mmrDoc.data()?.mmr || 800 : 800
ReadMmr(userId) == IF mmrDocs[userId] = 0 THEN DefaultMmr ELSE mmrDocs[userId]

\* ------------------------------------------------------------------ sequences
RECURSIVE SeqSum(_)
SeqSum(s) == IF s = <<>> THEN 0 ELSE s[1] + SeqSum(Tail(s))

\* Array.prototype.sort with comparator a.mmr - b.mmr (desc = FALSE) or
\* b.mmr - a.mmr (desc = TRUE); the sort is stable
Precedes(x, y, desc) == IF desc THEN x.mmr > y.mmr ELSE x.mmr < y.mmr

RECURSIVE InsertSorted(_, _, _)
InsertSorted(x, s, desc) ==
  IF s = <<>> THEN <<x>>
  ELSE IF Precedes(x, s[1], desc) THEN <<x>> \o s
  ELSE <<s[1]>> \o InsertSorted(x, Tail(s), desc)

RECURSIVE SortByMmr(_, _)
SortByMmr(s, desc) ==
  IF s = <<>> THEN <<>>
  ELSE InsertSorted(s[Len(s)], SortByMmr(SubSeq(s, 1, Len(s) - 1), desc), desc)

\* db.collection('queue').get(): the documents in document-id order
RECURSIVE QueueSnapshotFrom(_, _)
QueueSnapshotFrom(q, i) ==
  IF i > Len(q) THEN <<>>
  ELSE (IF q[i] = NoEntry THEN <<>> ELSE <<q[i]>>) \o QueueSnapshotFrom(q, i + 1)

QueueSnapshot(q) == QueueSnapshotFrom(q, 1)

\* ------------------------------------------------------------------ createDraftActions
banOrder == <<"blue", "red", "blue", "red", "blue", "red">>
pickOrder == <<"blue", "red", "red", "blue", "blue", "red", "red", "blue", "blue", "red">>

\* the picks alternate blue, red like the bans
createDraftActionsAlternating ==
  [i \in 1..(Len(banOrder) + Len(pickOrder)) |->
     [phase |-> i - 1, type |-> IF i <= Len(banOrder) THEN "ban" ELSE "pick",
      team |-> IF i % 2 = 1 THEN "blue" ELSE "red",
      championId |-> NoChampion, completedAt |-> 0,
      isActive |-> (i - 1 = 0), resolvedBy |-> "none"]]

\* actions[i] of the model is actions[i - 1] of the code; completedAt is a
\* logical timestamp, 0 for null; resolvedBy is the team of the caller that
\* resolved the action ("none" until then)
createDraftActions ==
  [i \in 1..(Len(banOrder) + Len(pickOrder)) |->
     IF i <= Len(banOrder)
     THEN [phase |-> i - 1, type |-> "ban", team |-> banOrder[i],
           championId |-> NoChampion, completedAt |-> 0,
           isActive |-> (i - 1 = 0), resolvedBy |-> "none"]
     ELSE [phase |-> 6 + (i - Len(banOrder) - 1), type |-> "pick",
           team |-> pickOrder[i - Len(banOrder)],
           championId |-> NoChampion, completedAt |-> 0,
           isActive |-> FALSE, resolvedBy |-> "none"]]

\* ------------------------------------------------------------------ balanceTeams
playersOfRole(players, role) == SelectSeq(players, LAMBDA p : p.role = role)

\* the higher rated of every pair goes to blue
RECURSIVE balanceFromBlueFirst(_, _, _, _)
balanceFromBlueFirst(players, r, blueTeam, redTeam) ==
  IF r > Len(Roles) THEN [blueTeam |-> blueTeam, redTeam |-> redTeam]
  ELSE LET pair == SortByMmr(playersOfRole(players, Roles[r]), TRUE)
       IN balanceFromBlueFirst(players, r + 1, Append(blueTeam, pair[1]),
                               Append(redTeam, pair[2]))

RECURSIVE balanceFrom(_, _, _, _)
balanceFrom(players, r, blueTeam, redTeam) ==
  IF r > Len(Roles) THEN [blueTeam |-> blueTeam, redTeam |-> redTeam]
  ELSE LET pair == SortByMmr(playersOfRole(players, Roles[r]), TRUE)
           blueTotal == SeqSum([i \in DOMAIN blueTeam |-> blueTeam[i].mmr])
           redTotal == SeqSum([i \in DOMAIN redTeam |-> redTeam[i].mmr])
       IN IF blueTotal <= redTotal
          THEN balanceFrom(players, r + 1, Append(blueTeam, pair[1]), Append(redTeam, pair[2]))
          ELSE balanceFrom(players, r + 1, Append(blueTeam, pair[2]), Append(redTeam, pair[1]))

balanceTeams(players) == balanceFrom(players, 1, <<>>, <<>>)

\* ------------------------------------------------------------------ tryMatchPlayers, pure part
\* every role needs 3 entries
matchPossibleOfThree(snapshot) ==
  \A r \in DOMAIN Roles : Len(playersOfRole(snapshot, Roles[r])) >= 3

\* every role has at least 2 entries in the snapshot
matchPossible(snapshot) ==
  \A r \in DOMAIN Roles : Len(playersOfRole(snapshot, Roles[r])) >= 2

\* the first player of every role is taken twice
RECURSIVE selectFromFirstTwice(_, _)
selectFromFirstTwice(snapshot, r) ==
  IF r > Len(Roles) THEN <<>>
  ELSE LET rolePlayers == SortByMmr(playersOfRole(snapshot, Roles[r]), FALSE)
       IN <<rolePlayers[1], rolePlayers[1]>> \o selectFromFirstTwice(snapshot, r + 1)

\* for (const role of roles): sort by mmr, take the first two
RECURSIVE selectFrom(_, _)
selectFrom(snapshot, r) ==
  IF r > Len(Roles) THEN <<>>
  ELSE LET rolePlayers == SortByMmr(playersOfRole(snapshot, Roles[r]), FALSE)
       IN <<rolePlayers[1], rolePlayers[2]>> \o selectFrom(snapshot, r + 1)

selectPlayers(snapshot) == selectFrom(snapshot, 1)

DraftPlayer(p, team) ==
  [odId |-> p.odId, role |-> p.role, team |-> team, mmr |-> p.mmr,
   isReady |-> FALSE, championId |-> NoChampion]

\* draftData of tryMatchPlayers; sincePhaseStart is (now - phaseStartedAt)
draftData(selected) ==
  LET teams == balanceTeams(selected)
  IN [status |-> "waiting",
      currentPhase |-> 0,
      currentTeam |-> "blue",
      phaseType |-> "ban",
      sincePhaseStart |-> 0,
      phaseTimeLimit |-> PhaseTimeLimit,
      blueTeam |-> [i \in DOMAIN teams.blueTeam |-> DraftPlayer(teams.blueTeam[i], "blue")],
      redTeam |-> [i \in DOMAIN teams.redTeam |-> DraftPlayer(teams.redTeam[i], "red")],
      blueTeamAvgMmr5 |-> SeqSum([i \in DOMAIN teams.blueTeam |-> teams.blueTeam[i].mmr]),
      redTeamAvgMmr5 |-> SeqSum([i \in DOMAIN teams.redTeam |-> teams.redTeam[i].mmr]),
      actions |-> createDraftActions,
      bannedChampions |-> {},
      cancelReason |-> "none",
      lobbySet |-> FALSE]

allPlayers(d) == d.blueTeam \o d.redTeam
memberIds(d) == {allPlayers(d)[i].odId : i \in DOMAIN allPlayers(d)}
isActiveStatus(status) == status \in {"waiting", "banning", "picking"}

\* ------------------------------------------------------------------ invocations
Idle ==
  [op |-> "idle", pc |-> "none", caller |-> 0, draftId |-> 0, championId |-> NoChampion,
   issuedPhase |-> 0, rivalWon |-> FALSE, blueTeam |-> <<>>, redTeam |-> <<>>,
   selected |-> <<>>]

Slots == 1..MaxInflight
freeSlots == {s \in DOMAIN calls : calls[s] = Idle}
\* the slot a new invocation takes
newSlot == CHOOSE s \in freeSlots : \A t \in freeSlots : s <= t

\* new HttpsError(code, message): the code of each message the functions throw
errorCode(message) ==
  CASE message = "ok" -> "ok"
    [] message \in {"Draft not found"} -> "not-found"
    [] message \in {"Draft is not in waiting state", "Draft is not in active phase",
                    "No active action", "Already in an active draft"} -> "failed-precondition"
    [] message \in {"Not a participant in this draft", "Not your team's turn",
                    "Not a participant"} -> "permission-denied"
    [] message \in {"Missing required fields", "Champion already banned or picked",
                    "Role and region are required", "Invalid role"} -> "invalid-argument"
    [] message \in {"Already in queue"} -> "already-exists"
    [] OTHER -> "internal"

\* what the caller gets back: { success: true, ... } when message is "ok",
\* the HttpsError otherwise
Response(op, message) ==
  [op |-> op, code |-> errorCode(message), message |-> message, caller |-> 0,
   draftId |-> 0, rivalWon |-> FALSE, matchFound |-> FALSE]

NoResponse == Response("none", "none")

draftExists(draftId) == draftId \in DOMAIN drafts

\* ------------------------------------------------------------------ setDraftReady
\* the checks made on the document that was read
readyCheck(d, userId) ==
  IF d.status # "waiting" THEN "Draft is not in waiting state"
  ELSE IF userId \notin memberIds(d) THEN "Not a participant in this draft"
  ELSE "ok"

markReady(team, userId) ==
  [i \in DOMAIN team |->
     IF team[i].odId = userId THEN [team[i] EXCEPT !.isReady = TRUE] ELSE team[i]]

everyReady(blueTeam, redTeam) ==
  \A i \in DOMAIN (blueTeam \o redTeam) : (blueTeam \o redTeam)[i].isReady

\* the update that starts the draft also writes currentPhase 0
readyUpdateFromStart(d, snapBlue, snapRed, userId) ==
  LET blueTeam == markReady(snapBlue, userId)
      redTeam == markReady(snapRed, userId)
      written == [d EXCEPT !.blueTeam = blueTeam, !.redTeam = redTeam]
  IN IF everyReady(blueTeam, redTeam)
     THEN [written EXCEPT !.status = "banning", !.sincePhaseStart = 0, !.currentPhase = 0]
     ELSE written

\* draftRef.update(updateData): blueTeam and redTeam as computed from the
\* document read earlier, status and phaseStartedAt when all of them are ready
readyUpdate(d, snapBlue, snapRed, userId) ==
  LET blueTeam == markReady(snapBlue, userId)
      redTeam == markReady(snapRed, userId)
      written == [d EXCEPT !.blueTeam = blueTeam, !.redTeam = redTeam]
  IN IF everyReady(blueTeam, redTeam)
     THEN [written EXCEPT !.status = "banning", !.sincePhaseStart = 0]
     ELSE written

\* ------------------------------------------------------------------ makeDraftAction
playerTeam(d, userId) ==
  IF \E i \in DOMAIN d.blueTeam : d.blueTeam[i].odId = userId THEN "blue"
  ELSE IF \E i \in DOMAIN d.redTeam : d.redTeam[i].odId = userId THEN "red"
  ELSE "none"

\* the filter keeps the bans instead of the picks
pickedChampionsOfBans(actions) ==
  {actions[i].championId :
     i \in {j \in DOMAIN actions : actions[j].type = "ban" /\ actions[j].championId # NoChampion}}

pickedChampions(actions) ==
  {actions[i].championId :
     i \in {j \in DOMAIN actions : actions[j].type = "pick" /\ actions[j].championId # NoChampion}}

\* the checks without the one that it is the caller's team's turn
actionCheckAnyTeam(d, userId, championId) ==
  IF ~(d.status \in {"banning", "picking"}) THEN "Draft is not in active phase"
  ELSE IF ~(d.currentPhase + 1 \in DOMAIN d.actions) \/ ~d.actions[d.currentPhase + 1].isActive
       THEN "No active action"
  ELSE IF playerTeam(d, userId) = "none" THEN "Not a participant in this draft"
  ELSE IF championId \in d.bannedChampions \/ championId \in pickedChampions(d.actions)
       THEN "Champion already banned or picked"
  ELSE "ok"

\* the checks of the transaction, in the order of the code
actionCheck(d, userId, championId) ==
  IF ~(d.status \in {"banning", "picking"}) THEN "Draft is not in active phase"
  ELSE IF ~(d.currentPhase + 1 \in DOMAIN d.actions) \/ ~d.actions[d.currentPhase + 1].isActive
       THEN "No active action"
  ELSE IF playerTeam(d, userId) = "none" THEN "Not a participant in this draft"
  ELSE IF d.actions[d.currentPhase + 1].team # playerTeam(d, userId) THEN "Not your team's turn"
  ELSE IF championId \in d.bannedChampions \/ championId \in pickedChampions(d.actions)
       THEN "Champion already banned or picked"
  ELSE "ok"

resolvedCount(actions) == Cardinality({i \in DOMAIN actions : actions[i].championId # NoChampion})

\* teamPlayers.find(p => !p.championId) and the map that follows
assignPick(teamPlayers, championId) ==
  LET unpicked == {i \in DOMAIN teamPlayers : teamPlayers[i].championId = NoChampion}
  IN IF unpicked = {} THEN teamPlayers
     ELSE LET first == CHOOSE i \in unpicked : \A j \in unpicked : i <= j
          IN [teamPlayers EXCEPT ![first].championId = championId]

\* the action resolved stays active
actionUpdateStaysActive(d, userId, championId) ==
  LET cur == d.currentPhase + 1
      currentAction == d.actions[cur]
      resolved == [d.actions EXCEPT ![cur] =
                     [currentAction EXCEPT !.championId = championId,
                                           !.completedAt = resolvedCount(d.actions) + 1,
                                           !.isActive = TRUE,
                                           !.resolvedBy = playerTeam(d, userId)]]
      d1 == [d EXCEPT !.actions = resolved,
                      !.bannedChampions =
                         IF currentAction.type = "ban" THEN @ \cup {championId} ELSE @,
                      !.blueTeam =
                         IF currentAction.type = "pick" /\ currentAction.team = "blue"
                         THEN assignPick(@, championId) ELSE @,
                      !.redTeam =
                         IF currentAction.type = "pick" /\ currentAction.team # "blue"
                         THEN assignPick(@, championId) ELSE @]
      nextPhase == d.currentPhase + 1
  IN IF nextPhase >= Len(d.actions)
     THEN [d1 EXCEPT !.status = "completed", !.lobbySet = TRUE]
     ELSE [d1 EXCEPT !.actions[nextPhase + 1].isActive = TRUE,
                     !.currentPhase = nextPhase,
                     !.currentTeam = d.actions[nextPhase + 1].team,
                     !.phaseType = d.actions[nextPhase + 1].type,
                     !.sincePhaseStart = 0,
                     !.status = IF d.actions[nextPhase + 1].type = "pick" /\ d.status = "banning"
                                THEN "picking" ELSE @]

\* the update of the transaction, once the checks passed
actionUpdate(d, userId, championId) ==
  LET cur == d.currentPhase + 1
      currentAction == d.actions[cur]
      resolved == [d.actions EXCEPT ![cur] =
                     [currentAction EXCEPT !.championId = championId,
                                           !.completedAt = resolvedCount(d.actions) + 1,
                                           !.isActive = FALSE,
                                           !.resolvedBy = playerTeam(d, userId)]]
      d1 == [d EXCEPT !.actions = resolved,
                      !.bannedChampions =
                         IF currentAction.type = "ban" THEN @ \cup {championId} ELSE @,
                      !.blueTeam =
                         IF currentAction.type = "pick" /\ currentAction.team = "blue"
                         THEN assignPick(@, championId) ELSE @,
                      !.redTeam =
                         IF currentAction.type = "pick" /\ currentAction.team # "blue"
                         THEN assignPick(@, championId) ELSE @]
      nextPhase == d.currentPhase + 1
  IN IF nextPhase >= Len(d.actions)
     THEN [d1 EXCEPT !.status = "completed", !.lobbySet = TRUE]
     ELSE [d1 EXCEPT !.actions[nextPhase + 1].isActive = TRUE,
                     !.currentPhase = nextPhase,
                     !.currentTeam = d.actions[nextPhase + 1].team,
                     !.phaseType = d.actions[nextPhase + 1].type,
                     !.sincePhaseStart = 0,
                     !.status = IF d.actions[nextPhase + 1].type = "pick" /\ d.status = "banning"
                                THEN "picking" ELSE @]

\* ------------------------------------------------------------------ timeoutDraftAction
timeoutCheck(d, userId) ==
  IF userId \notin memberIds(d) THEN "Not a participant" ELSE "ok"

timeoutUpdate(d) == [d EXCEPT !.status = "cancelled", !.cancelReason = "timeout"]

\* ------------------------------------------------------------------ inputs
\* users that call setDraftReady: the players still to ready up, a player
\* that is ready already (9) and a user outside the draft (11)
ReadyCallers == (1..MaxUnready) \cup {9, 11}
\* users that submit draft actions and timeouts: a player of each team
\* (9 and 10, the two supports) and a user outside the draft (11)
ActionCallers == {9, 10, 11}
\* users whose draft page is open while the phase clock runs out
PageViewers == {9}

usedChampions(d) == d.bannedChampions \cup pickedChampions(d.actions)

\* champion ids are interchangeable: a submission names no champion, the
\* champion of the first ban or of the first pick, or the least unused
\* champion of the caller's half of the catalogue (odd ids for blue and for
\* users outside the draft, even ids for red), so that callers of different
\* teams never name the same unused champion
SubmitInputs(d, userId) ==
  LET parity == IF playerTeam(d, userId) = "red" THEN 0 ELSE 1
      unused == {c \in Champions \ usedChampions(d) : c % 2 = parity}
  IN {NoChampion}
       \cup ({d.actions[1].championId, d.actions[Len(banOrder) + 1].championId} \ {NoChampion})
       \cup {c \in unused : \A c2 \in unused : c <= c2}

\* ------------------------------------------------------------------ actions: setDraftReady
\* the function up to its read (draftRef.get()) and the checks on what it read
SetDraftReadyRead(userId, draftId) ==
  /\ freeSlots # {}
  /\ IF ~draftExists(draftId)
     THEN /\ lastCall' = Response("ready", "Draft not found")
          /\ UNCHANGED calls
     ELSE LET code == readyCheck(drafts[draftId], userId)
          IN IF code # "ok"
             THEN /\ lastCall' = Response("ready", code)
                  /\ UNCHANGED calls
             ELSE /\ calls' = [calls EXCEPT ![newSlot] =
                                 [Idle EXCEPT !.op = "ready", !.pc = "update",
                                              !.caller = userId, !.draftId = draftId,
                                              !.blueTeam = drafts[draftId].blueTeam,
                                              !.redTeam = drafts[draftId].redTeam]]
                  /\ UNCHANGED lastCall
  /\ UNCHANGED <<queue, drafts, readyOk, queueClock, ratings, matches, calc>>

\* the rest of the function: draftRef.update(updateData) and the return
SetDraftReadyUpdate(s) ==
  /\ calls[s].op = "ready"
  /\ LET c == calls[s]
         after == readyUpdate(drafts[c.draftId], c.blueTeam, c.redTeam, c.caller)
     IN /\ drafts' = [drafts EXCEPT ![c.draftId] = after]
        /\ lastCall' = Response("ready", "ok")
        /\ readyOk' = readyOk \cup {c.caller}
  /\ calls' = [calls EXCEPT ![s] = Idle]
  /\ UNCHANGED <<queue, queueClock, ratings, matches, calc>>

\* ------------------------------------------------------------------ actions: makeDraftAction
\* the function: validation of the request, then db.runTransaction, whose
\* read, checks and update are one atomic step; rivalWon is the caller's note
makeDraftAction(userId, draftId, championId, rivalWon) ==
  IF championId = NoChampion
  THEN /\ lastCall' = Response("action", "Missing required fields")
       /\ UNCHANGED drafts
  ELSE IF ~draftExists(draftId)
  THEN /\ lastCall' = Response("action", "Draft not found")
       /\ UNCHANGED drafts
  ELSE LET code == actionCheck(drafts[draftId], userId, championId)
       IN IF code # "ok"
          THEN /\ lastCall' = Response("action", code)
               /\ UNCHANGED drafts
          ELSE /\ drafts' = [drafts EXCEPT ![draftId] =
                               actionUpdate(drafts[draftId], userId, championId)]
               /\ lastCall' = [Response("action", "ok") EXCEPT
                                 !.rivalWon = rivalWon]

\* a call of the function, from request to response
MakeDraftAction(userId, draftId, championId) ==
  /\ freeSlots # {}
  /\ makeDraftAction(userId, draftId, championId, FALSE)
  /\ UNCHANGED <<queue, calls, readyOk, queueClock, ratings, matches, calc>>

\* ------------------------------------------------------------------ actions: timeoutDraftAction
\* the whole function: its read decides only the participant check, and the
\* rosters' identities never change
timeoutDraftAction(userId, draftId) ==
  IF ~draftExists(draftId)
  THEN /\ lastCall' = Response("timeout", "Draft not found")
       /\ UNCHANGED drafts
  ELSE LET code == timeoutCheck(drafts[draftId], userId)
       IN IF code # "ok"
          THEN /\ lastCall' = Response("timeout", code)
               /\ UNCHANGED drafts
          ELSE /\ drafts' = [drafts EXCEPT ![draftId] = timeoutUpdate(drafts[draftId])]
               /\ lastCall' = Response("timeout", "ok")

\* a client calls the function directly
TimeoutDraftActionCalled(userId, draftId) ==
  /\ freeSlots # {}
  /\ timeoutDraftAction(userId, draftId)
  /\ UNCHANGED <<queue, calls, readyOk, queueClock, ratings, matches, calc>>

\* the draft page's effect: timeRemaining === 0 and status banning or picking
AutoTimeoutSent(userId, draftId) ==
  /\ freeSlots # {}
  /\ draftExists(draftId)
  /\ drafts[draftId].status \in {"banning", "picking"}
  /\ drafts[draftId].sincePhaseStart >= drafts[draftId].phaseTimeLimit
  /\ calls' = [calls EXCEPT ![newSlot] =
                 [Idle EXCEPT !.op = "timeout", !.pc = "arrive",
                              !.caller = userId, !.draftId = draftId]]
  /\ UNCHANGED <<queue, drafts, lastCall, readyOk, queueClock, ratings, matches, calc>>

AutoTimeoutArrives(s) ==
  /\ calls[s].op = "timeout"
  /\ timeoutDraftAction(calls[s].caller, calls[s].draftId)
  /\ calls' = [calls EXCEPT ![s] = Idle]
  /\ UNCHANGED <<queue, readyOk, queueClock, ratings, matches, calc>>

\* ------------------------------------------------------------------ the clock
\* the phase clock of a running draft advances
Tick ==
  /\ \E id \in DOMAIN drafts :
       drafts[id].status \in {"banning", "picking"} /\ drafts[id].sincePhaseStart < PhaseTimeLimit
  /\ drafts' = [id \in DOMAIN drafts |->
                  IF drafts[id].status \in {"banning", "picking"}
                     /\ drafts[id].sincePhaseStart < PhaseTimeLimit
                  THEN [drafts[id] EXCEPT !.sincePhaseStart = @ + TickSeconds]
                  ELSE drafts[id]]
  /\ UNCHANGED <<queue, calls, lastCall, readyOk, queueClock, ratings, matches, calc>>

\* ------------------------------------------------------------------ the draft under study
QueueEntry(userId, joinedAt) ==
  [odId |-> userId, role |-> RequestedRole[userId], mmr |-> ReadMmr(userId),
   joinedAt |-> joinedAt]

\* the session tryMatchPlayers makes of users 1..10, after the users above
\* MaxUnready have readied up one after the other
InitialDraft ==
  LET d == draftData(selectPlayers([i \in 1..10 |-> QueueEntry(i, i)]))
      ready(team) == [i \in DOMAIN team |->
                        [team[i] EXCEPT !.isReady = (team[i].odId > MaxUnready)]]
  IN [d EXCEPT !.blueTeam = ready(@), !.redTeam = ready(@)]

DraftInit ==
  /\ queue = [i \in Identities |-> NoEntry]
  /\ drafts = <<InitialDraft>>
  /\ calls = [s \in Slots |-> Idle]
  /\ lastCall = NoResponse
  /\ readyOk = {p \in memberIds(InitialDraft) : p > MaxUnready}
  /\ queueClock = 0
  /\ ratings = [u \in Identities |-> NoRating]
  /\ matches = <<>>
  /\ calc = NoCalc

DraftNext ==
  \/ \E userId \in ReadyCallers, draftId \in DOMAIN drafts : SetDraftReadyRead(userId, draftId)
  \/ \E s \in Slots : SetDraftReadyUpdate(s)
  \/ \E userId \in ActionCallers, draftId \in DOMAIN drafts :
       \E championId \in SubmitInputs(drafts[draftId], userId) :
         MakeDraftAction(userId, draftId, championId)
  \/ \E userId \in ActionCallers, draftId \in DOMAIN drafts :
       TimeoutDraftActionCalled(userId, draftId)
  \/ \E userId \in PageViewers, draftId \in DOMAIN drafts : AutoTimeoutSent(userId, draftId)
  \/ \E s \in Slots : AutoTimeoutArrives(s)
  \/ Tick

DraftSpec == DraftInit /\ [][DraftNext]_vars

\* ------------------------------------------------------------------ racing submissions
\* the draft page offers the champions that are neither banned nor picked in
\* the session as the page shows it
availableChampions(d, userId) == SubmitInputs(d, userId) \ (usedChampions(d) \cup {NoChampion})

\* useDraft.makeAction: a client sends makeDraftAction; issuedPhase notes the
\* phase the session is at when the call is sent
MakeDraftActionSent(userId, draftId, championId) ==
  /\ freeSlots # {}
  /\ draftExists(draftId)
  /\ calls' = [calls EXCEPT ![newSlot] =
                 [Idle EXCEPT !.op = "action", !.pc = "serve",
                              !.caller = userId, !.draftId = draftId,
                              !.championId = championId,
                              !.issuedPhase = drafts[draftId].currentPhase]]
  /\ UNCHANGED <<queue, drafts, lastCall, readyOk, queueClock, ratings, matches, calc>>

\* the server runs the function for a call sent earlier; a call that succeeds
\* tells the pending calls sent at the same phase that a rival has won
MakeDraftActionServed(s) ==
  /\ calls[s].op = "action"
  /\ LET c == calls[s]
         others == {t \in Slots \ {s} : calls[t].op = "action" /\ calls[t].draftId = c.draftId}
     IN /\ makeDraftAction(c.caller, c.draftId, c.championId, c.rivalWon)
        /\ \A t \in others : drafts'[c.draftId].currentPhase - calls[t].issuedPhase <= MaxLag
        /\ calls' = [t \in Slots |->
                       IF t = s THEN Idle
                       ELSE IF /\ t \in others
                               /\ calls[t].issuedPhase = c.issuedPhase
                               /\ drafts' # drafts
                            THEN [calls[t] EXCEPT !.rivalWon = TRUE]
                            ELSE calls[t]]
  /\ UNCHANGED <<queue, readyOk, queueClock, ratings, matches, calc>>

RECURSIVE readyAll(_, _)
readyAll(d, userIds) ==
  IF userIds = {} THEN d
  ELSE LET u == CHOOSE x \in userIds : \A y \in userIds : x <= y
       IN readyAll(readyUpdate(d, d.blueTeam, d.redTeam, u), userIds \ {u})

\* the draft under study once its last players have readied up in turn
StartedDraft == readyAll(InitialDraft, 1..MaxUnready)

RaceInit ==
  /\ queue = [i \in Identities |-> NoEntry]
  /\ drafts = <<StartedDraft>>
  /\ calls = [s \in Slots |-> Idle]
  /\ lastCall = NoResponse
  /\ readyOk = memberIds(StartedDraft)
  /\ queueClock = 0
  /\ ratings = [u \in Identities |-> NoRating]
  /\ matches = <<>>
  /\ calc = NoCalc

RaceNext ==
  \/ \E userId \in ActionCallers, draftId \in DOMAIN drafts :
       \E championId \in availableChampions(drafts[draftId], userId) :
         MakeDraftActionSent(userId, draftId, championId)
  \/ \E s \in Slots : MakeDraftActionServed(s)
  \/ \E userId \in ActionCallers, draftId \in DOMAIN drafts :
       TimeoutDraftActionCalled(userId, draftId)

RaceSpec == RaceInit /\ [][RaceNext]_vars

\* ------------------------------------------------------------------ actions: joinQueue
\* users that join and leave the queue; users 1..8 are queued at Init
Joiners == 9..12
InitiallyQueued == Cardinality(1..8)
\* the roles a join request names: the user's own, or one that is no role
JoinRoles(userId) == {RequestedRole[userId], "fill"}

queuedIds == {u \in DOMAIN queue : queue[u] # NoEntry}

inActiveDraft(userId) ==
  \E id \in DOMAIN drafts : isActiveStatus(drafts[id].status) /\ userId \in memberIds(drafts[id])

\* the query for an existing entry is left out
JoinQueueCalledUnqueried(userId, role) ==
  /\ freeSlots # {}
  /\ IF role \notin validRoles
     THEN /\ lastCall' = Response("join", "Invalid role")
          /\ UNCHANGED calls
     ELSE /\ calls' = [calls EXCEPT ![newSlot] =
                         [Idle EXCEPT !.op = "join", !.pc = "checkDrafts", !.caller = userId]]
          /\ UNCHANGED lastCall
  /\ UNCHANGED <<queue, drafts, readyOk, queueClock, ratings, matches, calc>>

\* the function up to its first read: validation of the request and the
\* query for an existing entry
JoinQueueCalled(userId, role) ==
  /\ freeSlots # {}
  /\ IF role \notin validRoles
     THEN /\ lastCall' = Response("join", "Invalid role")
          /\ UNCHANGED calls
     ELSE IF queue[userId] # NoEntry
     THEN /\ lastCall' = Response("join", "Already in queue")
          /\ UNCHANGED calls
     ELSE /\ calls' = [calls EXCEPT ![newSlot] =
                         [Idle EXCEPT !.op = "join", !.pc = "checkDrafts", !.caller = userId]]
          /\ UNCHANGED lastCall
  /\ UNCHANGED <<queue, drafts, readyOk, queueClock, ratings, matches, calc>>

\* the query for the active drafts and the check of their rosters
JoinQueueCheckDrafts(s) ==
  /\ calls[s].op = "join" /\ calls[s].pc = "checkDrafts"
  /\ IF inActiveDraft(calls[s].caller)
     THEN /\ lastCall' = Response("join", "Already in an active draft")
          /\ calls' = [calls EXCEPT ![s] = Idle]
     ELSE /\ calls' = [calls EXCEPT ![s].pc = "setEntry"]
          /\ UNCHANGED lastCall
  /\ UNCHANGED <<queue, drafts, readyOk, queueClock, ratings, matches, calc>>

\* the entry is added under a new document id instead of the caller's
JoinQueueSetEntryAdded(s) ==
  /\ calls[s].op = "join" /\ calls[s].pc = "setEntry"
  /\ queueClock < InitiallyQueued + MaxJoins
  /\ queueClock' = queueClock + 1
  /\ LET free == {k \in DOMAIN queue : queue[k] = NoEntry}
         docId == CHOOSE k \in free : \A k2 \in free : k <= k2
     IN queue' = [queue EXCEPT ![docId] = QueueEntry(calls[s].caller, queueClock + 1)]
  /\ calls' = [calls EXCEPT ![s].pc = "tryMatch"]
  /\ UNCHANGED <<drafts, lastCall, readyOk, ratings, matches, calc>>

\* db.collection('queue').doc(userId).set(queueEntry)
JoinQueueSetEntry(s) ==
  /\ calls[s].op = "join" /\ calls[s].pc = "setEntry"
  /\ queueClock < InitiallyQueued + MaxJoins
  /\ queueClock' = queueClock + 1
  /\ queue' = [queue EXCEPT ![calls[s].caller] = QueueEntry(calls[s].caller, queueClock + 1)]
  /\ calls' = [calls EXCEPT ![s].pc = "tryMatch"]
  /\ UNCHANGED <<drafts, lastCall, readyOk, ratings, matches, calc>>

\* tryMatchPlayers up to its read of the queue: the snapshot, the count of
\* each role and the selection
JoinQueueTryMatch(s) ==
  /\ calls[s].op = "join" /\ calls[s].pc = "tryMatch"
  /\ LET snapshot == QueueSnapshot(queue)
     IN IF ~matchPossible(snapshot)
        THEN /\ lastCall' = [Response("join", "ok") EXCEPT !.caller = calls[s].caller]
             /\ calls' = [calls EXCEPT ![s] = Idle]
        ELSE /\ calls' = [calls EXCEPT ![s].pc = "commit",
                                       ![s].selected = selectPlayers(snapshot)]
             /\ UNCHANGED lastCall
  /\ UNCHANGED <<queue, drafts, readyOk, queueClock, ratings, matches, calc>>

\* batch.commit(): the draft is set and the selected entries are deleted
JoinQueueCommit(s) ==
  /\ calls[s].op = "join" /\ calls[s].pc = "commit"
  /\ Len(drafts) < MaxDrafts
  /\ LET selected == calls[s].selected
         selectedIds == {selected[i].odId : i \in DOMAIN selected}
     IN /\ drafts' = Append(drafts, draftData(selected))
        /\ queue' = [u \in DOMAIN queue |-> IF u \in selectedIds THEN NoEntry ELSE queue[u]]
        /\ lastCall' = [Response("join", "ok") EXCEPT !.caller = calls[s].caller,
                                                       !.matchFound = TRUE,
                                                       !.draftId = Len(drafts) + 1]
  /\ calls' = [calls EXCEPT ![s] = Idle]
  /\ UNCHANGED <<readyOk, queueClock, ratings, matches, calc>>

\* ------------------------------------------------------------------ actions: leaveQueue
\* a variant that deletes the entry of every user who joined, not the caller's only
LeaveQueueOfEveryJoiner(userId) ==
  /\ freeSlots # {}
  /\ queue' = [u \in DOMAIN queue |-> IF u \in Joiners THEN NoEntry ELSE queue[u]]
  /\ lastCall' = [Response("leave", "ok") EXCEPT !.caller = userId]
  /\ UNCHANGED <<drafts, calls, readyOk, queueClock, ratings, matches, calc>>

\* db.collection('queue').doc(userId).delete()
LeaveQueue(userId) ==
  /\ freeSlots # {}
  /\ queue' = [queue EXCEPT ![userId] = NoEntry]
  /\ lastCall' = [Response("leave", "ok") EXCEPT !.caller = userId]
  /\ UNCHANGED <<drafts, calls, readyOk, queueClock, ratings, matches, calc>>

\* ------------------------------------------------------------------ the queue under study
\* users 1..8 have joined one after the other: two each for top, jungle, mid
\* and adc, no support yet
QueueInit ==
  /\ queue = [u \in Identities |-> IF u <= InitiallyQueued THEN QueueEntry(u, u) ELSE NoEntry]
  /\ drafts = <<>>
  /\ calls = [s \in Slots |-> Idle]
  /\ lastCall = NoResponse
  /\ readyOk = {}
  /\ queueClock = InitiallyQueued
  /\ ratings = [u \in Identities |-> NoRating]
  /\ matches = <<>>
  /\ calc = NoCalc

QueueNext ==
  \/ \E userId \in Joiners : \E role \in JoinRoles(userId) : JoinQueueCalled(userId, role)
  \/ \E s \in Slots : JoinQueueCheckDrafts(s)
  \/ \E s \in Slots : JoinQueueSetEntry(s)
  \/ \E s \in Slots : JoinQueueTryMatch(s)
  \/ \E s \in Slots : JoinQueueCommit(s)
  \/ \E userId \in Joiners : LeaveQueue(userId)

QueueSpec == QueueInit /\ [][QueueNext]_vars

\* ------------------------------------------------------------------ numbers
\* a JavaScript number is modelled by the exact rational it stands for,
\* <<numerator, denominator>> in lowest terms with a positive denominator
RECURSIVE GCD(_, _)
GCD(a, b) == IF b = 0 THEN a ELSE GCD(b, a % b)

Abs(n) == IF n < 0 THEN -n ELSE n

\* n / d for the greatest common divisor g of n and d
Lowest(n, d, g) ==
  IF d < 0 THEN <<(-n) \div g, (-d) \div g>> ELSE <<n \div g, d \div g>>

Rat(n, d) ==
  IF n = 0 THEN <<0, 1>>
  ELSE IF d = 1 THEN <<n, 1>>
  ELSE Lowest(n, d, GCD(Abs(n), Abs(d)))

Num(n) == <<n, 1>>
\* sums over the least common denominator, products after cancelling, and
\* comparisons by integer part and remainder, to keep the integers small
OverCommon(x, y, common) ==
  Rat(x[1] * (common \div x[2]) + y[1] * (common \div y[2]), common)
RAdd(x, y) ==
  IF x[2] = y[2] THEN Rat(x[1] + y[1], x[2])
  ELSE OverCommon(x, y, (x[2] \div GCD(x[2], y[2])) * y[2])
RSub(x, y) == RAdd(x, <<-y[1], y[2]>>)
Cancelled(x, y, cancelLeft, cancelRight) ==
  Rat((x[1] \div cancelLeft) * (y[1] \div cancelRight),
      (x[2] \div cancelRight) * (y[2] \div cancelLeft))
RMul(x, y) ==
  IF x[1] = 0 \/ y[1] = 0 THEN <<0, 1>>
  ELSE Cancelled(x, y, GCD(Abs(x[1]), y[2]), GCD(Abs(y[1]), x[2]))
RDiv(x, y) == RMul(x, IF y[1] < 0 THEN <<-y[2], -y[1]>> ELSE <<y[2], y[1]>>)
RLess(x, y) ==
  IF x[1] \div x[2] # y[1] \div y[2] THEN x[1] \div x[2] < y[1] \div y[2]
  ELSE (x[1] % x[2]) * y[2] < (y[1] % y[2]) * x[2]
RLeq(x, y) == x = y \/ RLess(x, y)
RMax(x, y) == IF RLeq(x, y) THEN y ELSE x
RMin(x, y) == IF RLeq(x, y) THEN x ELSE y
Floor(x) == x[1] \div x[2]
\* Math.round: the nearest integer, a half rounds up
Round(x) == Floor(RAdd(x, <<1, 2>>))

\* the upper limit is left out
clampFromBelow(value, min, max) == RMax(min, value)

clamp(value, min, max) == RMax(min, RMin(max, value))

\* ------------------------------------------------------------------ MMR_CONFIG
BASE_CHANGE == 25
PLACEMENT_MULTIPLIER == 2
PLACEMENT_GAMES == 5
MIN_MMR == 100
MAX_MMR == 3000
PERFORMANCE_WEIGHTS ==
  [kda |-> <<30, 100>>, damage |-> <<25, 100>>, cs |-> <<20, 100>>,
   vision |-> <<15, 100>>, objective |-> <<10, 100>>]
MIN_PERFORMANCE_MULTIPLIER == <<1, 2>>
MAX_PERFORMANCE_MULTIPLIER == <<3, 2>>
MIN_OPPONENT_MULTIPLIER == <<4, 5>>
MAX_OPPONENT_MULTIPLIER == <<6, 5>>

RANK_TO_MMR ==
  [IRON |-> 400, BRONZE |-> 600, SILVER |-> 800, GOLD |-> 1000, PLATINUM |-> 1200,
   EMERALD |-> 1400, DIAMOND |-> 1600, MASTER |-> 1800, GRANDMASTER |-> 2000,
   CHALLENGER |-> 2200, UNRANKED |-> 800]

rankOrder ==
  <<"IRON", "BRONZE", "SILVER", "GOLD", "PLATINUM",
    "EMERALD", "DIAMOND", "MASTER", "GRANDMASTER", "CHALLENGER">>

\* riotRanks is the sequence of the tiers of the user's accounts; a tier that
\* is no rank of rankOrder has index -1
getInitialMMR(riotRanks) ==
  LET indexOf(tier) == IF \E i \in DOMAIN rankOrder : rankOrder[i] = tier
                       THEN CHOOSE i \in DOMAIN rankOrder : rankOrder[i] = tier
                       ELSE 0
      indices == {indexOf(riotRanks[i]) : i \in DOMAIN riotRanks}
      highestRankIndex == IF indices = {} THEN 0
                          ELSE CHOOSE i \in indices : \A j \in indices : j <= i
  IN IF highestRankIndex = 0 THEN RANK_TO_MMR.UNRANKED
     ELSE RANK_TO_MMR[rankOrder[highestRankIndex]]

\* ------------------------------------------------------------------ performance score
\* the numbers averaged are the integers of the statistics
average(numbers) ==
  IF Len(numbers) = 0 THEN Num(0) ELSE Rat(SeqSum(numbers), Len(numbers))

normalizeScore(value, avg) ==
  IF avg = Num(0) THEN Num(50)
  ELSE clamp(RMul(RDiv(value, avg), Num(50)), Num(0), Num(100))

scoreToMultiplier(score) ==
  clamp(RAdd(<<1, 2>>, RDiv(score, Num(100))),
        MIN_PERFORMANCE_MULTIPLIER, MAX_PERFORMANCE_MULTIPLIER)

\* one statistic of every player
statOf(allStats, f) == [i \in DOMAIN allStats |-> allStats[i][f]]

\* (kills + assists) / deaths, or (kills + assists) * 2 without a death
kdaOf(killsAndAssists, deaths) ==
  IF deaths = Num(0) THEN RMul(killsAndAssists, Num(2)) ELSE RDiv(killsAndAssists, deaths)

\* the five normalized scores of the player
normalizedScores(playerStats, allStats) ==
  [kda |-> normalizeScore(kdaOf(Num(playerStats.kills + playerStats.assists),
                                Num(playerStats.deaths)),
                          kdaOf(RAdd(average(statOf(allStats, "kills")),
                                     average(statOf(allStats, "assists"))),
                                average(statOf(allStats, "deaths")))),
   damage |-> normalizeScore(Num(playerStats.damage), average(statOf(allStats, "damage"))),
   cs |-> normalizeScore(Num(playerStats.cs), average(statOf(allStats, "cs"))),
   vision |-> normalizeScore(Num(playerStats.visionScore),
                             average(statOf(allStats, "visionScore"))),
   objective |-> normalizeScore(Num(playerStats.objectiveScore),
                                average(statOf(allStats, "objectiveScore")))]

\* the weighted total of the scores
weightedTotal(scores, weights) ==
  RAdd(RMul(scores.kda, weights.kda),
  RAdd(RMul(scores.damage, weights.damage),
  RAdd(RMul(scores.cs, weights.cs),
  RAdd(RMul(scores.vision, weights.vision),
       RMul(scores.objective, weights.objective)))))

\* the score returned and the fields of breakdown: multiplier is
\* Math.round(multiplier * 100) / 100
breakdownOf(scores, totalScore) ==
  [kdaScore |-> Round(scores.kda),
   damageScore |-> Round(scores.damage),
   csScore |-> Round(scores.cs),
   visionScore |-> Round(scores.vision),
   objectiveScore |-> Round(scores.objective),
   score |-> Round(totalScore),
   totalScore |-> Round(totalScore),
   multiplier |-> Rat(Round(RMul(scoreToMultiplier(totalScore), Num(100))), 100)]

weighted(scores) == breakdownOf(scores, weightedTotal(scores, PERFORMANCE_WEIGHTS))

calculatePerformanceScore(playerStats, allStats) ==
  weighted(normalizedScores(playerStats, allStats))

\* ------------------------------------------------------------------ rating change
RECURSIVE Pow10(_)
Pow10(n) == IF n = 0 THEN 1 ELSE 10 * Pow10(n - 1)

\* 1 / (1 + Math.pow(10, mmrDiff / 400)) where mmrDiff = 400 * q
expectedWinAt(q) ==
  IF q >= 0 THEN Rat(1, 1 + Pow10(q)) ELSE Rat(Pow10(-q), Pow10(-q) + 1)

\* the power of 10 is rational only where mmrDiff is a multiple of 400:
\* there the expected outcome is exact (lo = hi); elsewhere it lies between
\* its values at the two neighbouring multiples, as it decreases with
\* mmrDiff; beyond 400 * MaxExponent it lies between the last value and its
\* limit
MaxExponent == 3

expectedWinBetween(steps, q) ==
  IF steps = Num(q) /\ q >= -MaxExponent /\ q <= MaxExponent
  THEN [lo |-> expectedWinAt(q), hi |-> expectedWinAt(q)]
  ELSE IF q >= MaxExponent THEN [lo |-> Num(0), hi |-> expectedWinAt(MaxExponent)]
  ELSE IF q < -MaxExponent THEN [lo |-> expectedWinAt(-MaxExponent), hi |-> Num(1)]
  ELSE [lo |-> expectedWinAt(q + 1), hi |-> expectedWinAt(q)]

expectedWinBounds(mmrDiff) ==
  expectedWinBetween(RDiv(mmrDiff, Num(400)), Floor(RDiv(mmrDiff, Num(400))))

\* the two branches change places
opponentMultiplierSwapped(expectedWin, didWin) ==
  clamp(IF didWin
        THEN RAdd(Num(1), RMul(expectedWin, <<4, 10>>))
        ELSE RAdd(Num(1), RMul(RSub(Num(1), expectedWin), <<4, 10>>)),
        MIN_OPPONENT_MULTIPLIER, MAX_OPPONENT_MULTIPLIER)

\* the multiplier for a given expected outcome, clamped
opponentMultiplier(expectedWin, didWin) ==
  clamp(IF didWin
        THEN RAdd(Num(1), RMul(RSub(Num(1), expectedWin), <<4, 10>>))
        ELSE RAdd(Num(1), RMul(expectedWin, <<4, 10>>)),
        MIN_OPPONENT_MULTIPLIER, MAX_OPPONENT_MULTIPLIER)

\* bounds of the multiplier: it grows with 1 - expectedWin for a winner and
\* with expectedWin for a loser
opponentMultiplierBounds(expectedWin, didWin) ==
  IF didWin
  THEN [lo |-> opponentMultiplier(expectedWin.hi, didWin),
        hi |-> opponentMultiplier(expectedWin.lo, didWin)]
  ELSE [lo |-> opponentMultiplier(expectedWin.lo, didWin),
        hi |-> opponentMultiplier(expectedWin.hi, didWin)]

calculateOpponentMultiplier(playerMmr, opponentAvgMmr, didWin) ==
  opponentMultiplierBounds(expectedWinBounds(RSub(opponentAvgMmr, Num(playerMmr))), didWin)

\* a variant without the win/loss multiplier
changeOutsidePlacementUnsigned(didWin, performanceMultiplier, opponentMult) ==
  RMul(RMul(Num(BASE_CHANGE), performanceMultiplier), opponentMult)

\* base change, win/loss multiplier, performance multiplier and opponent
\* multiplier
changeOutsidePlacement(didWin, performanceMultiplier, opponentMult) ==
  RMul(RMul(RMul(Num(BASE_CHANGE), Num(IF didWin THEN 1 ELSE -1)), performanceMultiplier),
       opponentMult)

\* a variant that rounds before the placement multiplier is applied
unroundedChangeRoundedFirst(didWin, performanceMultiplier, opponentMult, isPlacement) ==
  IF isPlacement
  THEN RMul(Num(Round(changeOutsidePlacement(didWin, performanceMultiplier, opponentMult))),
            Num(PLACEMENT_MULTIPLIER))
  ELSE changeOutsidePlacement(didWin, performanceMultiplier, opponentMult)

\* change before Math.round, for a given opponent multiplier
unroundedChange(didWin, performanceMultiplier, opponentMult, isPlacement) ==
  IF isPlacement
  THEN RMul(changeOutsidePlacement(didWin, performanceMultiplier, opponentMult),
            Num(PLACEMENT_MULTIPLIER))
  ELSE changeOutsidePlacement(didWin, performanceMultiplier, opponentMult)

\* the change before rounding lies between its values at the two bounds of
\* the opponent multiplier
changeBounds(atLo, atHi) ==
  IF RLeq(atLo, atHi) THEN [lo |-> atLo, hi |-> atHi] ELSE [lo |-> atHi, hi |-> atLo]

\* changes is the set of the values Math.round(change) may take: one value
\* where the opponent multiplier is exact
changeResult(breakdown, unrounded) ==
  [performanceScore |-> breakdown.score,
   breakdown |-> breakdown,
   unrounded |-> unrounded,
   changes |-> Round(unrounded.lo)..Round(unrounded.hi)]

changeFor(didWin, breakdown, opponentMult, isPlacement) ==
  changeResult(breakdown,
               changeBounds(unroundedChange(didWin, breakdown.multiplier, opponentMult.lo,
                                            isPlacement),
                            unroundedChange(didWin, breakdown.multiplier, opponentMult.hi,
                                            isPlacement)))

calculateMMRChange(playerStats, context, isPlacement) ==
  changeFor(playerStats.team = context.winner,
            calculatePerformanceScore(playerStats, context.allPlayerStats),
            calculateOpponentMultiplier(playerStats.mmrAtTime,
                                        IF playerStats.team = "blue" THEN context.redTeamAvgMmr
                                        ELSE context.blueTeamAvgMmr,
                                        playerStats.team = context.winner),
            isPlacement)

\* a variant that leaves the sum as it is
applyMMRChangeUnclamped(currentMmr, change) ==
  LET newMmr == currentMmr + change
  IN newMmr

applyMMRChange(currentMmr, change) ==
  LET newMmr == currentMmr + change
  IN clamp(Num(newMmr), Num(MIN_MMR), Num(MAX_MMR))[1]

\* ------------------------------------------------------------------ the rating engine under study
\* statistics of one player as submitMatchResult passes them on
PlayerStats(odId, team, line, mmrAtTime) ==
  [odId |-> odId, team |-> team, kills |-> line[1], deaths |-> line[2],
   assists |-> line[3], cs |-> line[4], damage |-> line[5],
   visionScore |-> line[6], objectiveScore |-> line[7], mmrAtTime |-> mmrAtTime]

\* <<kills, deaths, assists, cs, damage, visionScore, objectiveScore>>: the
\* line of the other nine players, and the lines of the player under study:
\* the same, nothing at all, twice the others without a death, the others'
\* line with more farm, and six times the others without a death
OthersLine == <<2, 2, 4, 100, 1000, 10, 5>>
StatLines ==
  {OthersLine, <<0, 6, 0, 0, 0, 0, 0>>, <<4, 0, 8, 200, 2000, 20, 10>>,
   <<2, 2, 4, 130, 1000, 10, 5>>, <<12, 0, 24, 600, 6000, 60, 30>>}

\* ratings of the player and average ratings of the opposing team
CalcRatings == {600, 1000, 1400}
CalcOpponentAvgs == {600, 1000, 1400, 1800, 940}

\* the arguments of calculateMMRChange for player 1 of a match of ten
CalcArguments(line, team, winner, mmr, opponentAvg) ==
  LET other == IF team = "blue" THEN "red" ELSE "blue"
      allPlayerStats ==
        [i \in 1..10 |->
           IF i = 1 THEN PlayerStats(1, team, line, mmr)
           ELSE PlayerStats(i, IF i <= 5 THEN team ELSE other, OthersLine,
                            IF i <= 5 THEN mmr ELSE opponentAvg)]
  IN [given |-> TRUE,
      playerStats |-> allPlayerStats[1],
      context |-> [winner |-> winner,
                   blueTeamAvgMmr |-> Num(IF team = "blue" THEN mmr ELSE opponentAvg),
                   redTeamAvgMmr |-> Num(IF team = "blue" THEN opponentAvg ELSE mmr),
                   allPlayerStats |-> allPlayerStats],
      opponentAvg |-> opponentAvg,
      outside |-> [done |-> FALSE],
      placement |-> [done |-> FALSE],
      newMmr |-> 0]

\* one evaluation of calculateMMRChange
outcomes(result) ==
  {[done |-> TRUE, change |-> change, unrounded |-> result.unrounded,
    performanceScore |-> result.performanceScore,
    multiplier |-> result.breakdown.multiplier] : change \in result.changes}

Evaluated(isPlacement) ==
  outcomes(calculateMMRChange(calc.playerStats, calc.context, isPlacement))

CalculateOutsidePlacement ==
  /\ calc.given /\ ~calc.outside.done
  /\ \E result \in Evaluated(FALSE) : calc' = [calc EXCEPT !.outside = result]
  /\ UNCHANGED <<queue, drafts, calls, lastCall, readyOk, queueClock, ratings, matches>>

CalculateInPlacement ==
  /\ calc.given /\ ~calc.placement.done
  /\ \E result \in Evaluated(TRUE) : calc' = [calc EXCEPT !.placement = result]
  /\ UNCHANGED <<queue, drafts, calls, lastCall, readyOk, queueClock, ratings, matches>>

\* applyMMRChange on the player's rating and a change just calculated
ApplyMMRChange ==
  /\ calc.given /\ calc.newMmr = 0
  /\ \E result \in {calc.outside, calc.placement} :
       /\ result.done
       /\ calc' = [calc EXCEPT !.newMmr = applyMMRChange(calc.playerStats.mmrAtTime,
                                                         result.change)]
  /\ UNCHANGED <<queue, drafts, calls, lastCall, readyOk, queueClock, ratings, matches>>

CalcInit ==
  /\ queue = [i \in Identities |-> NoEntry]
  /\ drafts = <<>>
  /\ calls = [s \in Slots |-> Idle]
  /\ lastCall = NoResponse
  /\ readyOk = {}
  /\ queueClock = 0
  /\ ratings = [u \in Identities |-> NoRating]
  /\ matches = <<>>
  /\ \E line \in StatLines, team \in {"blue", "red"}, winner \in {"blue", "red"},
        mmr \in CalcRatings, opponentAvg \in CalcOpponentAvgs :
       calc = CalcArguments(line, team, winner, mmr, opponentAvg)

CalcNext ==
  \/ CalculateOutsidePlacement
  \/ CalculateInPlacement
  \/ ApplyMMRChange

CalcSpec == CalcInit /\ [][CalcNext]_vars

\* ------------------------------------------------------------------ submitMatchResult
\* request.data of the submissions under study: the same ten players, users
\* 1..5 as blueTeam and users 6..10 as redTeam, and every player with the
\* statistics of OthersLine
blueTeam == <<1, 2, 3, 4, 5>>
redTeam == <<6, 7, 8, 9, 10>>
Players == 1..10
teamOf(odId) == IF \E i \in DOMAIN blueTeam : blueTeam[i] = odId THEN "blue" ELSE "red"

\* collection 'users': the tiers of the Riot accounts of each user
riotRanks(userId) == IF userId <= 5 THEN <<"IRON">> ELSE <<"GOLD", "CHALLENGER">>

\* the users that have called initializePlayerMMR before the first match, and
\* the user whose calls of it are studied
Initialized == {1, 2, 3, 4, 5}
Uninitialized == {10}
\* request.auth.uid of the submissions under study and of the earlier ones
Submitter == "submitter"
EarlierSubmitter == "earlier"
\* the numbers of earlier matches the store may hold at first
EarlierMatches == {0, 3, 8}

\* a mmr document not read yet
NotRead == [exists |-> FALSE, pending |-> TRUE]

\* mmrData of initializePlayerMMR
initialRating(userId) ==
  LET initialMmr == getInitialMMR(riotRanks(userId))
  IN [mmr |-> initialMmr, gamesPlayed |-> 0, placementGamesPlayed |-> 0, isPlaced |-> FALSE,
      wins |-> 0, losses |-> 0, peakMmr |-> initialMmr, history |-> <<>>, exists |-> TRUE]

\* playerMmrMap and playerPlacementMap built from the documents read (the
\* source's mmrDocs, here docsRead)
playerMmr(docsRead, odId) ==
  IF ~docsRead[odId].exists THEN getInitialMMR(riotRanks(odId))
  ELSE IF docsRead[odId].mmr = 0 THEN DefaultMmr ELSE docsRead[odId].mmr

playerPlacement(docsRead, odId) ==
  IF ~docsRead[odId].exists THEN FALSE
  ELSE docsRead[odId].placementGamesPlayed >= PLACEMENT_GAMES

\* matchContext of a submission
matchContextOf(docsRead, winner) ==
  [winner |-> winner,
   blueTeamAvgMmr |-> Rat(SeqSum([i \in DOMAIN blueTeam |-> playerMmr(docsRead, blueTeam[i])]), 5),
   redTeamAvgMmr |-> Rat(SeqSum([i \in DOMAIN redTeam |-> playerMmr(docsRead, redTeam[i])]), 5),
   allPlayerStats |-> [odId \in Players |->
                         PlayerStats(odId, teamOf(odId), OthersLine, playerMmr(docsRead, odId))]]

\* two players for whom calculateMMRChange is given the same arguments
sameArguments(docsRead, p, q) ==
  /\ teamOf(p) = teamOf(q)
  /\ playerMmr(docsRead, p) = playerMmr(docsRead, q)
  /\ playerPlacement(docsRead, p) = playerPlacement(docsRead, q)

\* the least player given the same arguments as p
firstLike(docsRead, p) ==
  CHOOSE q \in Players :
    sameArguments(docsRead, p, q) /\ \A r \in Players : sameArguments(docsRead, p, r) => q <= r

\* mmrChanges for given results of calculateMMRChange and a choice among
\* the changes each result allows
mmrChangesChosen(docsRead, results, choice) ==
  [p \in Players |->
     LET result == CHOOSE r \in results : r.odId = firstLike(docsRead, p)
     IN [change |-> choice[result.odId],
         performanceScore |-> result.performanceScore,
         mmrBefore |-> playerMmr(docsRead, p),
         newMmr |-> applyMMRChange(playerMmr(docsRead, p), choice[result.odId])]]

\* calculateMMRChange for player p: the changes it may return and the
\* performance score
resultOf(p, result) ==
  [odId |-> p, performanceScore |-> result.performanceScore, changes |-> result.changes]

resultIn(matchContext, isPlacement, p) ==
  resultOf(p, calculateMMRChange(matchContext.allPlayerStats[p], matchContext, isPlacement))

resultFor(docsRead, winner, p) ==
  resultIn(matchContextOf(docsRead, winner), ~playerPlacement(docsRead, p), p)

\* the values mmrChanges may take: for each player the change, the
\* performance score and newMmr; players given the same arguments get the
\* same change
mmrChangesOf(docsRead, winner) ==
  UNION {
    {mmrChangesChosen(docsRead, results, choice) :
       choice \in {c \in [{r.odId : r \in results} -> UNION {r.changes : r \in results}] :
                     \A r \in results : c[r.odId] \in r.changes}} :
    results \in {{resultFor(docsRead, winner, p) :
                    p \in {firstLike(docsRead, q) : q \in Players}}}}

\* the match document of matchRef.set
matchDocument(matchId, createdBy, winner, mmrChanges) ==
  [id |-> matchId, createdBy |-> createdBy, status |-> "completed", winner |-> winner,
   playerStats |-> [p \in Players |-> [odId |-> p, team |-> teamOf(p),
                                       performanceScore |-> mmrChanges[p].performanceScore,
                                       mmrChange |-> mmrChanges[p].change]],
   mmrProcessed |-> TRUE]

Max(a, b) == IF a >= b THEN a ELSE b
Min(a, b) == IF a <= b THEN a ELSE b

\* what the batch writes to the document of one player: mmrDoc is the
\* document as the submission read it, stored the document at commit
ratingWritten(stored, mmrDoc, matchId, winner, odId, result) ==
  LET didWin == teamOf(odId) = winner
      currentMmr == result.mmrBefore
      currentPeakMmr == IF mmrDoc.exists /\ mmrDoc.peakMmr # 0 THEN mmrDoc.peakMmr
                        ELSE currentMmr
      historyEntry == [matchId |-> matchId, mmrBefore |-> currentMmr,
                       mmrAfter |-> result.newMmr, change |-> result.change,
                       performanceScore |-> result.performanceScore]
  IN IF mmrDoc.exists
     THEN [stored EXCEPT
             !.mmr = result.newMmr,
             !.gamesPlayed = mmrDoc.gamesPlayed + 1,
             !.placementGamesPlayed = Min(mmrDoc.placementGamesPlayed + 1, PLACEMENT_GAMES),
             !.isPlaced = mmrDoc.placementGamesPlayed + 1 >= PLACEMENT_GAMES,
             !.wins = IF didWin THEN mmrDoc.wins + 1 ELSE mmrDoc.wins,
             !.losses = IF didWin THEN mmrDoc.losses ELSE mmrDoc.losses + 1,
             !.peakMmr = Max(currentPeakMmr, result.newMmr),
             !.history = Append(stored.history, historyEntry)]
     ELSE [mmr |-> result.newMmr, gamesPlayed |-> 1, placementGamesPlayed |-> 1,
           isPlaced |-> 1 >= PLACEMENT_GAMES,
           wins |-> IF didWin THEN 1 ELSE 0, losses |-> IF didWin THEN 0 ELSE 1,
           peakMmr |-> result.newMmr, history |-> <<historyEntry>>, exists |-> TRUE]

\* the writes the loop over allPlayers puts into the batch, the first i of them
RECURSIVE batchWritten(_, _, _, _, _, _)
batchWritten(stored, docsRead, matchId, winner, mmrChanges, i) ==
  IF i = 0 THEN stored
  ELSE LET odId == (blueTeam \o redTeam)[i]
       IN [batchWritten(stored, docsRead, matchId, winner, mmrChanges, i - 1) EXCEPT
             ![odId] = ratingWritten(stored[odId], docsRead[odId], matchId, winner, odId,
                                     mmrChanges[odId])]

\* batch.commit: the ten documents are written in one atomic step
batchCommitted(stored, docsRead, matchId, winner, mmrChanges) ==
  batchWritten(stored, docsRead, matchId, winner, mmrChanges, Len(blueTeam \o redTeam))

\* an invocation of submitMatchResult
Submission(pc, winner, docsRead, matchId, mmrChanges) ==
  [op |-> "submit", pc |-> pc, winner |-> winner, docsRead |-> docsRead,
   matchId |-> matchId, mmrChanges |-> mmrChanges]

submissions == {s \in Slots : calls[s].op = "submit"}

\* the call arrives and the gets of the blue team's documents are answered
SubmitMatchResult(winner) ==
  /\ freeSlots # {}
  /\ Cardinality({m \in DOMAIN matches : matches[m].createdBy = Submitter})
       + Cardinality({s \in submissions : calls[s].matchId = 0}) < MaxMatches
  /\ calls' = [calls EXCEPT ![newSlot] =
                 Submission("read", winner,
                            [p \in Players |-> IF teamOf(p) = "blue" THEN ratings[p]
                                               ELSE NotRead], 0, <<>>)]
  /\ UNCHANGED <<queue, drafts, lastCall, readyOk, queueClock, ratings, matches, calc>>

\* the gets of the red team's documents are answered
SubmitReadRest(s) ==
  /\ calls[s].op = "submit" /\ calls[s].pc = "read"
  /\ calls' = [calls EXCEPT ![s].pc = "setMatch",
                            ![s].docsRead = [p \in Players |->
                                              IF teamOf(p) = "red" THEN ratings[p]
                                              ELSE calls[s].docsRead[p]]]
  /\ UNCHANGED <<queue, drafts, lastCall, readyOk, queueClock, ratings, matches, calc>>

\* the changes are calculated and matchRef.set writes the match document
SubmitSetMatch(s) ==
  /\ calls[s].op = "submit" /\ calls[s].pc = "setMatch"
  /\ \E mmrChanges \in mmrChangesOf(calls[s].docsRead, calls[s].winner) :
       LET matchId == Len(matches) + 1
       IN /\ matches' = Append(matches, matchDocument(matchId, Submitter, calls[s].winner, mmrChanges))
          /\ calls' = [calls EXCEPT ![s].pc = "commit", ![s].matchId = matchId,
                                    ![s].mmrChanges = mmrChanges]
  /\ UNCHANGED <<queue, drafts, lastCall, readyOk, queueClock, ratings, calc>>

\* batch.commit succeeds and the call returns
SubmitCommit(s) ==
  /\ calls[s].op = "submit" /\ calls[s].pc = "commit"
  /\ ratings' = batchCommitted(ratings, calls[s].docsRead, calls[s].matchId,
                               calls[s].winner, calls[s].mmrChanges)
  /\ calls' = [calls EXCEPT ![s] = Idle]
  /\ lastCall' = [Response("submit", "ok") EXCEPT !.draftId = calls[s].matchId]
  /\ UNCHANGED <<queue, drafts, readyOk, queueClock, matches, calc>>

\* an awaited operation of the try block is rejected: the catch block
\* answers with the HttpsError and nothing more is written
SubmitFails(s) ==
  /\ calls[s].op = "submit"
  /\ calls' = [calls EXCEPT ![s] = Idle]
  /\ lastCall' = [Response("submit", "Failed to submit match result")
                    EXCEPT !.draftId = calls[s].matchId]
  /\ UNCHANGED <<queue, drafts, readyOk, queueClock, ratings, matches, calc>>

\* ------------------------------------------------------------------ initializePlayerMMR
\* the get of the caller's document: the call returns when it exists
InitializePlayerMMR(userId) ==
  /\ freeSlots # {}
  /\ IF ratings[userId].exists
     THEN /\ lastCall' = [Response("initialize", "ok") EXCEPT !.caller = userId]
          /\ UNCHANGED calls
     ELSE /\ calls' = [calls EXCEPT ![newSlot] =
                         [op |-> "initialize", pc |-> "set", caller |-> userId]]
          /\ UNCHANGED lastCall
  /\ UNCHANGED <<queue, drafts, readyOk, queueClock, ratings, matches, calc>>

\* the set of the document created
InitializeSet(s) ==
  /\ calls[s].op = "initialize" /\ calls[s].pc = "set"
  /\ ratings' = [ratings EXCEPT ![calls[s].caller] = initialRating(calls[s].caller)]
  /\ calls' = [calls EXCEPT ![s] = Idle]
  /\ lastCall' = [Response("initialize", "ok") EXCEPT !.caller = calls[s].caller]
  /\ UNCHANGED <<queue, drafts, readyOk, queueClock, matches, calc>>

\* ------------------------------------------------------------------ the ratings under study
\* the store after n submissions won by red that ran one after the other
storeNext(before, matchId) ==
  LET docsRead == [p \in Players |-> before.ratings[p]]
  IN CHOOSE after \in
       {[ratings |-> batchCommitted(before.ratings, docsRead, matchId, "red", mmrChanges),
         matches |-> Append(before.matches,
                            matchDocument(matchId, EarlierSubmitter, "red", mmrChanges))] :
          mmrChanges \in mmrChangesOf(docsRead, "red")} : TRUE

RECURSIVE storeAfter(_)
storeAfter(n) ==
  IF n = 0
  THEN [ratings |-> [u \in Identities |-> IF u \in Initialized THEN initialRating(u)
                                          ELSE NoRating],
        matches |-> <<>>]
  ELSE CHOOSE after \in {storeNext(before, n) : before \in {storeAfter(n - 1)}} : TRUE

RatingInit ==
  /\ queue = [i \in Identities |-> NoEntry]
  /\ drafts = <<>>
  /\ calls = [s \in Slots |-> Idle]
  /\ lastCall = NoResponse
  /\ readyOk = {}
  /\ queueClock = 0
  /\ calc = NoCalc
  /\ \E n \in EarlierMatches : \E store \in {storeAfter(n)} :
       /\ ratings = store.ratings
       /\ matches = store.matches

RatingNext ==
  \/ \E winner \in {"blue", "red"} : SubmitMatchResult(winner)
  \/ \E s \in Slots : SubmitReadRest(s)
  \/ \E s \in Slots : SubmitSetMatch(s)
  \/ \E s \in Slots : SubmitCommit(s)
  \/ \E s \in Slots : SubmitFails(s)
  \/ \E userId \in Uninitialized : InitializePlayerMMR(userId)
  \/ \E s \in Slots : InitializeSet(s)

RatingSpec == RatingInit /\ [][RatingNext]_vars

\* ------------------------------------------------------------------ claims: the draft
Draft1 == drafts[1]
isResolved(a) == a.championId # NoChampion

\* C1: of the makeDraftAction calls sent while a session is at one phase, at
\* most one succeeds: a call that was sent at the same phase as a call that
\* has already succeeded is answered with a failure.
C1_OneWinnerPerPhase ==
  ~(lastCall.op = "action" /\ lastCall.code = "ok" /\ lastCall.rivalWon)

\* C4: in every session the selections of the resolved actions, bans and
\* picks alike, are pairwise distinct.
C4_SelectionsDistinct ==
  \A id \in DOMAIN drafts :
    \A i, j \in DOMAIN drafts[id].actions :
      (i # j /\ isResolved(drafts[id].actions[i]))
        => drafts[id].actions[i].championId # drafts[id].actions[j].championId

\* a session whose 16 actions are all resolved
C4_Witness ==
  /\ Draft1.status = "completed"
  /\ \A i \in DOMAIN Draft1.actions : isResolved(Draft1.actions[i])

\* C5: once a session is cancelled it stays cancelled.
C5_CancelledForever ==
  [][\A id \in DOMAIN drafts :
       drafts[id].status = "cancelled" => drafts'[id].status = "cancelled"]_vars

\* C6: once a session is completed or cancelled none of its fields changes.
C6_TerminalImmutable ==
  [][\A id \in DOMAIN drafts :
       drafts[id].status \in {"completed", "cancelled"} => drafts'[id] = drafts[id]]_vars

\* C7: a session becomes cancelled only from status banning or picking and
\* only when its phase clock has run out.
C7_TimeoutOnlyWhenElapsed ==
  [][\A id \in DOMAIN drafts :
       (drafts[id].status # "cancelled" /\ drafts'[id].status = "cancelled")
         => /\ drafts[id].status \in {"banning", "picking"}
            /\ drafts[id].sincePhaseStart >= drafts[id].phaseTimeLimit]_vars

\* C8: once every one of the 10 players has had a setDraftReady call return
\* successfully (and nothing was submitted or timed out since), the session
\* is in status banning, action 0 is active and all ten ready flags are true.
C8_AllReadyStartsDraft ==
  (/\ readyOk = memberIds(Draft1)
   /\ Draft1.cancelReason = "none"
   /\ resolvedCount(Draft1.actions) = 0)
    => /\ Draft1.status = "banning"
       /\ Draft1.actions[1].isActive
       /\ everyReady(Draft1.blueTeam, Draft1.redTeam)

\* what C9 calls a violation of a check, for a call by userId naming championId
violatesCheck(d, userId, championId) ==
  \/ d.status \notin {"banning", "picking"}
  \/ ~d.actions[d.currentPhase + 1].isActive
  \/ userId \notin memberIds(d)
  \/ \A i \in DOMAIN allPlayers(d) :
       allPlayers(d)[i].odId = userId => allPlayers(d)[i].team # d.actions[d.currentPhase + 1].team
  \/ \E i \in DOMAIN d.actions : d.actions[i].championId = championId

\* C9: a makeDraftAction call that violates a check (status, active action,
\* participant, team, champion already selected) is answered with an error
\* and leaves every session as it was.
C9_RejectedWithoutMutation ==
  [][\A userId \in ActionCallers : \A championId \in SubmitInputs(Draft1, userId) :
       (/\ MakeDraftAction(userId, 1, championId)
        /\ violatesCheck(Draft1, userId, championId))
         => /\ drafts' = drafts
            /\ lastCall'.op = "action"
            /\ lastCall'.code \notin {"ok", "none"}]_vars

\* a duplicate selection was rejected during the pick phase
C9_Witness ==
  /\ Draft1.status = "picking"
  /\ lastCall.message = "Champion already banned or picked"

\* the 16-step template as the specification states it
templateTeams ==
  <<"blue", "red", "blue", "red", "blue", "red",
    "blue", "red", "red", "blue", "blue", "red", "red", "blue", "blue", "red">>

\* C10: in a completed session actions 0-5 are bans and actions 6-15 picks,
\* the teams follow the template, every action was resolved by a member of
\* its team, and the actions were resolved in increasing index order.
C10_CompletedFollowsTemplate ==
  \A id \in DOMAIN drafts :
    drafts[id].status = "completed" =>
      /\ Len(drafts[id].actions) = 16
      /\ \A i \in DOMAIN drafts[id].actions :
           LET a == drafts[id].actions[i]
           IN /\ a.type = (IF i <= 6 THEN "ban" ELSE "pick")
              /\ a.team = templateTeams[i]
              /\ isResolved(a)
              /\ a.resolvedBy = a.team
              /\ a.completedAt = i

\* a completed session, whose last pick was red's
C10_Witness ==
  /\ Draft1.status = "completed"
  /\ Draft1.lobbySet
  /\ Draft1.actions[16].resolvedBy = "red"

\* C11: in a session whose status is banning or picking exactly one action
\* is active, and it is the action at the current phase index.
C11_OneActiveAction ==
  \A id \in DOMAIN drafts :
    drafts[id].status \in {"banning", "picking"} =>
      {i \in DOMAIN drafts[id].actions : drafts[id].actions[i].isActive}
        = {drafts[id].currentPhase + 1}

\* every player of the session holds a selection
everySelected(d) ==
  \A i \in DOMAIN allPlayers(d) : allPlayers(d)[i].championId # NoChampion

\* C20: the successful submission that resolves the last of the 16 actions
\* leaves the session completed, every one of its 10 players with a
\* selection and the lobby credentials set; and a session is completed only
\* with all 16 actions resolved.
C20_SixteenSubmissionsComplete ==
  [][\A id \in DOMAIN drafts :
       /\ (/\ resolvedCount(drafts[id].actions) = 15
           /\ resolvedCount(drafts'[id].actions) = 16)
            => /\ drafts'[id].status = "completed"
               /\ drafts'[id].lobbySet
               /\ everySelected(drafts'[id])
       /\ drafts'[id].status = "completed" => resolvedCount(drafts'[id].actions) = 16]_vars

\* ------------------------------------------------------------------ claims: the queue
\* C2: match formation is atomic: the step that creates a session removes
\* from the queue exactly the 10 entries of the session's 10 distinct
\* members, every one of which was queued, and none of them is in a session
\* made earlier.
C2_MatchFormationAtomic ==
  [][Len(drafts') > Len(drafts) =>
       LET new == memberIds(drafts'[Len(drafts')])
       IN /\ Len(drafts') = Len(drafts) + 1
          /\ Cardinality(new) = 10
          /\ new \subseteq queuedIds
          /\ queuedIds' = queuedIds \ new
          /\ \A id \in DOMAIN drafts : memberIds(drafts[id]) # new]_vars

\* C3: no user is a member of two sessions that are both active.
C3_NeverMatchedTwice ==
  \A i, j \in DOMAIN drafts :
    (i # j /\ isActiveStatus(drafts[i].status) /\ isActiveStatus(drafts[j].status))
      => memberIds(drafts[i]) \cap memberIds(drafts[j]) = {}

\* C12: the queue never holds two entries of the same identity.
C12_OneEntryPerIdentity ==
  \A userId \in Identities :
    Cardinality({k \in DOMAIN queue : queue[k] # NoEntry /\ queue[k].odId = userId}) <= 1

\* two joinQueue calls of one user have both written their entry
C12_Witness ==
  \E s, t \in Slots :
    /\ s # t
    /\ calls[s].op = "join" /\ calls[t].op = "join"
    /\ calls[s].caller = calls[t].caller
    /\ calls[s].pc = "tryMatch" /\ calls[t].pc = "tryMatch"
    /\ queue[calls[s].caller] # NoEntry

\* C13: no user is at once a member of an active session and the owner of
\* a queue entry.
C13_NoEntryWhileDrafting ==
  \A userId \in Identities : ~(inActiveDraft(userId) /\ queue[userId] # NoEntry)

\* C14: a session is created only by a step at whose start every role has
\* at least 2 queue entries.
C14_MatchNeedsTwoPerRole ==
  [][Len(drafts') > Len(drafts) => matchPossible(QueueSnapshot(queue))]_vars

\* ------------------------------------------------------------------ claims: the rating engine
\* the opponent multiplier of the evaluation is exact
calcExact(result) == result.done /\ result.unrounded.lo = result.unrounded.hi

\* C16: a player with performance score 50 and performance multiplier 1
\* whose rating equals the opposing team's average gets, outside placement,
\* +25 for a win and -25 for a loss.
C16_AverageGetsBaseChange ==
  (/\ calc.given /\ calc.outside.done
   /\ calc.outside.performanceScore = 50
   /\ calc.outside.multiplier = Num(1)
   /\ calc.playerStats.mmrAtTime = calc.opponentAvg)
    => calc.outside.change =
         (IF calc.playerStats.team = calc.context.winner THEN BASE_CHANGE ELSE -BASE_CHANGE)

\* C19: the change before rounding in placement is exactly twice the change
\* before rounding outside placement, and the placement change is the
\* rounding of that double.
C19_PlacementDoubles ==
  (calc.given /\ calc.outside.done /\ calc.placement.done) =>
    /\ calc.placement.unrounded.lo = RMul(Num(2), calc.outside.unrounded.lo)
    /\ calc.placement.unrounded.hi = RMul(Num(2), calc.outside.unrounded.hi)
    /\ calcExact(calc.outside) =>
         calc.placement.change = Round(RMul(Num(2), calc.outside.unrounded.lo))

\* both evaluations are done, the double is no integer and its sign is negative
C19_Witness ==
  /\ calc.given /\ calc.outside.done /\ calc.placement.done
  /\ calcExact(calc.outside)
  /\ calc.placement.unrounded.lo[2] # 1
  /\ calc.placement.change < 0

\* ------------------------------------------------------------------ claims: match results
\* the history of the player holds an entry of the match
ratingApplied(matchId, odId) ==
  \E i \in DOMAIN ratings[odId].history : ratings[odId].history[i].matchId = matchId

\* C15: the match document and the rating updates of its ten players are
\* written as one unit: every match document has its processed flag true and
\* an entry in the history of each of its ten players, and every history
\* entry is of a match that has a document.
C15_MatchAndRatingsAtomic ==
  /\ \A m \in DOMAIN matches :
       /\ matches[m].mmrProcessed
       /\ \A p \in Players : ratingApplied(m, p)
  /\ \A p \in Players : \A i \in DOMAIN ratings[p].history :
       ratings[p].history[i].matchId \in DOMAIN matches

inRange(mmr) == mmr >= MIN_MMR /\ mmr <= MAX_MMR

\* ratings and changes applyMMRChange is tried on
SampleRatings == {MIN_MMR, MIN_MMR + 1, 1000, MAX_MMR - 1, MAX_MMR}
SampleChanges == {-90, -45, -1, 0, 1, 45, 90}

\* C17: every rating is within [100, 3000]: the rating of every tier and
\* the initial rating of every user, applyMMRChange of a rating and a
\* change, every stored rating and the rating after of every history entry.
C17_RatingInRange ==
  /\ \A tier \in DOMAIN RANK_TO_MMR : inRange(RANK_TO_MMR[tier])
  /\ \A u \in Identities : inRange(getInitialMMR(riotRanks(u)))
  /\ \A r \in SampleRatings : \A change \in SampleChanges :
       inRange(applyMMRChange(r, change))
  /\ \A u \in Identities :
       ratings[u].exists =>
         /\ inRange(ratings[u].mmr)
         /\ \A i \in DOMAIN ratings[u].history : inRange(ratings[u].history[i].mmrAfter)

\* a submission under study took a player to the lowest rating where the
\* sum of the rating read and the change is below it
C17_Witness ==
  \E p \in Players : \E i \in DOMAIN ratings[p].history :
    LET entry == ratings[p].history[i]
    IN /\ matches[entry.matchId].createdBy = Submitter
       /\ entry.mmrBefore + entry.change < MIN_MMR
       /\ entry.mmrAfter = MIN_MMR
       /\ ratings[p].mmr = MIN_MMR

\* C18: after every step, for every user: the placed flag is true exactly
\* when the placement counter has reached 5, the counter is at most 5 and
\* not lower than before, and a flag that was true is still true.
C18_PlacedFollowsCounter ==
  [][\A u \in Identities :
       /\ ratings'[u].isPlaced = (ratings'[u].placementGamesPlayed >= PLACEMENT_GAMES)
       /\ ratings'[u].placementGamesPlayed <= PLACEMENT_GAMES
       /\ ratings'[u].placementGamesPlayed >= ratings[u].placementGamesPlayed
       /\ ratings[u].isPlaced => ratings'[u].isPlaced]_vars

\* ------------------------------------------------------------------ ten joins from an empty queue
\* the users that join: two for each role, in the order of the roles; a
\* call is made when the call before it has returned
TenJoiners == 1..10
\* the role of the next join, by the number of entries written so far
nextJoinRole == Roles[(queueClock \div 2) + 1]

TenJoinsCalled(userId) ==
  /\ \A s \in Slots : calls[s] = Idle
  /\ queueClock < Cardinality(TenJoiners)
  /\ queue[userId] = NoEntry
  /\ RequestedRole[userId] = nextJoinRole
  /\ JoinQueueCalled(userId, RequestedRole[userId])

TenJoinsInit ==
  /\ queue = [u \in Identities |-> NoEntry]
  /\ drafts = <<>>
  /\ calls = [s \in Slots |-> Idle]
  /\ lastCall = NoResponse
  /\ readyOk = {}
  /\ queueClock = 0
  /\ ratings = [u \in Identities |-> NoRating]
  /\ matches = <<>>
  /\ calc = NoCalc

TenJoinsNext ==
  \/ \E userId \in TenJoiners : TenJoinsCalled(userId)
  \/ \E s \in Slots : JoinQueueCheckDrafts(s)
  \/ \E s \in Slots : JoinQueueSetEntry(s)
  \/ \E s \in Slots : JoinQueueTryMatch(s)
  \/ \E s \in Slots : JoinQueueCommit(s)

TenJoinsSpec == TenJoinsInit /\ [][TenJoinsNext]_vars

\* ------------------------------------------------------------------ claims: ten joins
\* every call has returned
allReturned == \A s \in Slots : calls[s] = Idle

\* C21: ten users join an empty queue one after the other, two for each
\* role in the order of the roles: each of the first nine calls returns
\* success with matchFound false and leaves the caller queued, the tenth
\* returns matchFound true, and the session it made is in status waiting
\* with five blue and five red players and action 0 an active ban of blue.
C21_TenthJoinMakesSession ==
  /\ lastCall.op = "join" => lastCall.code = "ok"
  /\ (lastCall.op = "join" /\ ~lastCall.matchFound) =>
       /\ drafts = <<>>
       /\ queue[lastCall.caller] # NoEntry
  /\ (allReturned /\ queueClock > 0 /\ queueClock < Cardinality(TenJoiners)) =>
       /\ lastCall.op = "join"
       /\ ~lastCall.matchFound
       /\ Cardinality(queuedIds) = queueClock
  /\ (allReturned /\ queueClock = Cardinality(TenJoiners)) =>
       /\ lastCall.matchFound
       /\ Len(drafts) = 1
       /\ lastCall.draftId = 1
       /\ drafts[1].status = "waiting"
       /\ Len(drafts[1].blueTeam) = 5
       /\ Len(drafts[1].redTeam) = 5
       /\ drafts[1].actions[1].type = "ban"
       /\ drafts[1].actions[1].team = "blue"
       /\ drafts[1].actions[1].isActive

\* the tenth call has returned
C21_Witness ==
  /\ allReturned
  /\ queueClock = Cardinality(TenJoiners)
  /\ lastCall.op = "join"
  /\ lastCall.caller \in {9, 10}

\* ------------------------------------------------------------------ claims: rejected joins
\* what a rejected call leaves as it was
joinRejected ==
  /\ lastCall'.op = "join"
  /\ lastCall'.code \in {"already-exists", "failed-precondition", "invalid-argument"}
  /\ UNCHANGED <<queue, drafts, queueClock, ratings, matches>>

\* C22: a joinQueue call whose role is none of the five roles, or whose
\* caller has a queue entry when the function looks for one, or is a member
\* of a session in status waiting, banning or picking when the function reads
\* the sessions, is rejected with an error and leaves the queue (the entry of
\* the caller included) and every session as they were.
C22_RejectedJoinChangesNothing ==
  [][/\ \A userId \in Joiners : \A role \in JoinRoles(userId) :
          (JoinQueueCalled(userId, role) /\ (role \notin validRoles \/ queue[userId] # NoEntry))
            => joinRejected
     /\ \A s \in Slots :
          (JoinQueueCheckDrafts(s) /\ inActiveDraft(calls[s].caller)) => joinRejected
     /\ \A s \in Slots :
          /\ (calls[s] = Idle /\ calls'[s].op = "join") => queue[calls'[s].caller] = NoEntry
          /\ (calls[s].pc = "checkDrafts" /\ calls'[s].pc = "setEntry")
               => ~inActiveDraft(calls[s].caller)
     /\ (lastCall' # lastCall /\ lastCall'.op = "join" /\ lastCall'.code # "ok")
          => UNCHANGED <<queue, drafts, queueClock>>]_vars

\* a member of a session in status waiting was refused
C22_Witness ==
  /\ lastCall.op = "join"
  /\ lastCall.message = "Already in an active draft"
  /\ \E id \in DOMAIN drafts : drafts[id].status = "waiting"

\* ------------------------------------------------------------------ claims: repeated ready
\* the ready flag of the user in the rosters
flagOf(blue, red, userId) ==
  \E i \in DOMAIN (blue \o red) : (blue \o red)[i].odId = userId /\ (blue \o red)[i].isReady

\* C23: a setDraftReady call of a participant whose ready flag is already
\* true, in the session as the call read it and in the session as it is
\* when the call writes, both in status waiting, returns success and leaves
\* the session as it was.
C23_ReadyIsIdempotent ==
  [][\A s \in Slots :
       (/\ SetDraftReadyUpdate(s)
        /\ flagOf(calls[s].blueTeam, calls[s].redTeam, calls[s].caller)
        /\ drafts[calls[s].draftId].status = "waiting"
        /\ flagOf(drafts[calls[s].draftId].blueTeam, drafts[calls[s].draftId].redTeam,
                  calls[s].caller))
         => /\ lastCall'.code = "ok"
            /\ drafts' = drafts]_vars

\* ------------------------------------------------------------------ claims: the phase index
\* C24: in every step (a ready update, a submission, a timeout, in any
\* interleaving) the phase index of every session is not lower than before,
\* and it is within 0..15 before and after.
C24_PhaseIndexMonotone ==
  [][\A id \in DOMAIN drafts :
       /\ drafts[id].currentPhase \in 0..(Len(createDraftActions) - 1)
       /\ drafts'[id].currentPhase \in 0..(Len(createDraftActions) - 1)
       /\ drafts'[id].currentPhase >= drafts[id].currentPhase]_vars

\* the index has gone all the way and the last action is resolved
C24_Witness ==
  /\ Draft1.currentPhase = Len(createDraftActions) - 1
  /\ isResolved(Draft1.actions[Len(createDraftActions)])

\* ------------------------------------------------------------------ claims: status and phase
\* the step resolves the action of phase n of session id
resolves(id, n) ==
  /\ ~isResolved(drafts[id].actions[n + 1])
  /\ isResolved(drafts'[id].actions[n + 1])

\* C25: a session in status banning has its phase index in 0..5 and one in
\* status picking has it in 6..15; the status changes from banning to
\* picking exactly in the step that resolves action 5 and activates action
\* 6, and it changes to completed exactly in the step that resolves action 15.
C25_StatusFollowsPhase ==
  [][\A id \in DOMAIN drafts :
       /\ drafts'[id].status = "banning" => drafts'[id].currentPhase \in 0..5
       /\ drafts'[id].status = "picking" => drafts'[id].currentPhase \in 6..15
       /\ (drafts[id].status = "banning" /\ drafts'[id].status = "picking")
            <=> (resolves(id, 5) /\ ~drafts[id].actions[7].isActive
                                 /\ drafts'[id].actions[7].isActive)
       /\ (drafts[id].status # "completed" /\ drafts'[id].status = "completed")
            <=> resolves(id, 15)]_vars

\* ------------------------------------------------------------------ tryMatchPlayers on a queue
\* the ratings of the two users of a role that joined, and of the third
\* user of top (12) and of support (11), 0 when that user has not joined
PairRatings == {<<800, 800>>, <<900, 800>>, <<800, 1100>>, <<900, 1100>>}
ThirdRatings == {0, 800, 1100}

\* the queue when the last of its entries has just been written: every
\* entry has its own join time, in the order of the user ids or against it
queueOf(pairs, third, reversed) ==
  [u \in Identities |->
     IF u > 10 /\ third[u] = 0 THEN NoEntry
     ELSE [odId |-> u, role |-> RequestedRole[u],
           mmr |-> IF u > 10 THEN third[u] ELSE pairs[(u + 1) \div 2][2 - (u % 2)],
           joinedAt |-> IF reversed THEN Len(RequestedRole) + 1 - u ELSE u]]

lastJoined(q) ==
  CHOOSE u \in DOMAIN q :
    q[u] # NoEntry /\ \A v \in DOMAIN q : q[v] # NoEntry => q[v].joinedAt <= q[u].joinedAt

TryMatchInit ==
  /\ \E pairs \in [DOMAIN Roles -> PairRatings], third \in [{11, 12} -> ThirdRatings],
        reversed \in BOOLEAN :
       /\ queue = queueOf(pairs, third, reversed)
       /\ calls = [s \in Slots |->
                     IF s = 1
                     THEN [Idle EXCEPT !.op = "join", !.pc = "tryMatch",
                                       !.caller = lastJoined(queueOf(pairs, third, reversed))]
                     ELSE Idle]
  /\ drafts = <<>>
  /\ lastCall = NoResponse
  /\ readyOk = {}
  /\ queueClock = Len(RequestedRole)
  /\ ratings = [u \in Identities |-> NoRating]
  /\ matches = <<>>
  /\ calc = NoCalc

TryMatchNext ==
  \/ \E s \in Slots : JoinQueueTryMatch(s)
  \/ \E s \in Slots : JoinQueueCommit(s)

TryMatchSpec == TryMatchInit /\ [][TryMatchNext]_vars

\* ------------------------------------------------------------------ claims: selection and balance
\* entry a goes before entry b: lower rating, or the same rating and the
\* earlier join time
goesBefore(a, b) == a.mmr < b.mmr \/ (a.mmr = b.mmr /\ a.joinedAt < b.joinedAt)

\* C26: of every role the two entries selected are the two of lowest
\* rating, and among entries of equal rating the one that joined earlier
\* goes first: the first selected goes before the second, and the second
\* before every entry of the role that is not selected.
C26_LowestRatedEarliestFirst ==
  \A s \in Slots :
    (calls[s].op = "join" /\ calls[s].pc = "commit") =>
      \A r \in DOMAIN Roles :
        /\ goesBefore(calls[s].selected[2 * r - 1], calls[s].selected[2 * r])
        /\ \A u \in queuedIds :
             (/\ queue[u].role = Roles[r]
              /\ u \notin {calls[s].selected[2 * r - 1].odId, calls[s].selected[2 * r].odId})
               => goesBefore(calls[s].selected[2 * r], queue[u])

\* the part of C26 that the selection keeps: no entry left out has a lower
\* rating than a selected entry of its role, and the first is not rated
\* above the second
selectedAreLowestRated ==
  \A s \in Slots :
    (calls[s].op = "join" /\ calls[s].pc = "commit") =>
      \A r \in DOMAIN Roles :
        /\ calls[s].selected[2 * r - 1].mmr <= calls[s].selected[2 * r].mmr
        /\ \A u \in queuedIds :
             (/\ queue[u].role = Roles[r]
              /\ u \notin {calls[s].selected[2 * r - 1].odId, calls[s].selected[2 * r].odId})
               => calls[s].selected[2 * r].mmr <= queue[u].mmr

\* the rating of the player of the role in a roster
ratingOf(team, role) == team[CHOOSE i \in DOMAIN team : team[i].role = role].mmr
rosterSum(team) == SeqSum([i \in DOMAIN team |-> team[i].mmr])
\* the difference of the ratings of the two players of the role
roleGap(d, role) == Abs(ratingOf(d.blueTeam, role) - ratingOf(d.redTeam, role))

\* C27: the sums of the ratings of the two teams of a session differ by no
\* more than the largest difference of the ratings of the two players of
\* one role.
C27_TeamsBalanced ==
  \A id \in DOMAIN drafts :
    \E role \in validRoles :
      Abs(rosterSum(drafts[id].blueTeam) - rosterSum(drafts[id].redTeam))
        <= roleGap(drafts[id], role)

\* a session whose teams differ, where the higher rated of a role went to
\* red and the higher rated of another went to blue
C27_Witness ==
  \E id \in DOMAIN drafts :
    /\ rosterSum(drafts[id].blueTeam) # rosterSum(drafts[id].redTeam)
    /\ \E role \in validRoles :
         ratingOf(drafts[id].redTeam, role) > ratingOf(drafts[id].blueTeam, role)
    /\ \E role \in validRoles :
         ratingOf(drafts[id].blueTeam, role) > ratingOf(drafts[id].redTeam, role)

\* ------------------------------------------------------------------ claims: opponent strength
\* the values Math.round may give for a change between the bounds
roundedRange(bounds) == Round(bounds.lo)..Round(bounds.hi)

\* the changes outside placement of a player with that outcome and that
\* performance multiplier, for an opponent multiplier between the bounds
changesWith(didWin, performanceMultiplier, opponentMult) ==
  roundedRange(changeBounds(unroundedChange(didWin, performanceMultiplier, opponentMult.lo,
                                            FALSE),
                            unroundedChange(didWin, performanceMultiplier, opponentMult.hi,
                                            FALSE)))

\* the changes of the player under study, all else equal, had the average
\* rating of the opposing team been other
changesAgainst(other) ==
  changesWith(calc.playerStats.team = calc.context.winner, calc.outside.multiplier,
              calculateOpponentMultiplier(calc.playerStats.mmrAtTime, Num(other),
                                          calc.playerStats.team = calc.context.winner))

multiplierInRange(opponentMult) ==
  /\ RLeq(MIN_OPPONENT_MULTIPLIER, opponentMult.lo)
  /\ RLeq(opponentMult.hi, MAX_OPPONENT_MULTIPLIER)

multipliersInRange ==
  \A mmr \in CalcRatings : \A other \in CalcOpponentAvgs : \A didWin \in BOOLEAN :
    multiplierInRange(calculateOpponentMultiplier(mmr, Num(other), didWin))

\* C28 as stated: the opponent multiplier is within [0.8, 1.2]; the gain of
\* a winner is at least the gain it would have against any lower rated
\* opposing team; the loss of a loser against a lower rated opposing team
\* can be as small as, or smaller than, its loss against this one.
C28_LoserLosesLessToWeaker ==
  (calc.given /\ calc.outside.done) =>
    /\ multipliersInRange
    /\ \A other \in CalcOpponentAvgs :
         other < calc.opponentAvg =>
           IF calc.playerStats.team = calc.context.winner
           THEN \A a \in changesAgainst(other) : calc.outside.change >= a
           ELSE \E a \in changesAgainst(other) : Abs(a) <= Abs(calc.outside.change)

\* C28: the opponent multiplier is within [0.8, 1.2]; the gain of a winner
\* is at least the gain it would have against any lower rated opposing
\* team; the loss of a loser is at most the loss it would have against any
\* lower rated opposing team.
C28_LoserLosesMoreToWeaker ==
  (calc.given /\ calc.outside.done) =>
    /\ multipliersInRange
    /\ \A other \in CalcOpponentAvgs :
         other < calc.opponentAvg =>
           IF calc.playerStats.team = calc.context.winner
           THEN \A a \in changesAgainst(other) : calc.outside.change >= a
           ELSE \A a \in changesAgainst(other) : Abs(a) >= Abs(calc.outside.change)

\* a loser whose loss against a lower rated opposing team would be greater
C28_Witness ==
  /\ calc.given /\ calc.outside.done
  /\ calc.playerStats.team # calc.context.winner
  /\ \E other \in CalcOpponentAvgs :
       /\ other < calc.opponentAvg
       /\ \A a \in changesAgainst(other) : Abs(a) > Abs(calc.outside.change)

\* ------------------------------------------------------------------ claims: the largest change
\* Math.round(BASE_CHANGE * 1.5 * 1.2)
largestChange ==
  Round(RMul(RMul(Num(BASE_CHANGE), MAX_PERFORMANCE_MULTIPLIER), MAX_OPPONENT_MULTIPLIER))

performanceInRange(multiplier) ==
  RLeq(MIN_PERFORMANCE_MULTIPLIER, multiplier) /\ RLeq(multiplier, MAX_PERFORMANCE_MULTIPLIER)

\* scores scoreToMultiplier is tried on, below 0 and above 100 included
SampleScores == {Num(n) : n \in -20..120}

\* C29: a change outside placement is at most 45 in magnitude and a change
\* in placement at most 90, and the performance multiplier is within
\* [0.5, 1.5]: the one of every change calculated, and scoreToMultiplier of
\* every score.
C29_ChangeBounded ==
  /\ largestChange = 45
  /\ \A score \in SampleScores : performanceInRange(scoreToMultiplier(score))
  /\ (calc.given /\ calc.outside.done) =>
       /\ Abs(calc.outside.change) <= largestChange
       /\ performanceInRange(calc.outside.multiplier)
  /\ (calc.given /\ calc.placement.done) =>
       /\ Abs(calc.placement.change) <= PLACEMENT_MULTIPLIER * largestChange
       /\ performanceInRange(calc.placement.multiplier)

\* both changes of a player are as large as they can be
C29_Witness ==
  /\ calc.given /\ calc.outside.done /\ calc.placement.done
  /\ Abs(calc.outside.change) = largestChange
  /\ Abs(calc.placement.change) = PLACEMENT_MULTIPLIER * largestChange
  /\ calc.outside.multiplier = MAX_PERFORMANCE_MULTIPLIER

\* ------------------------------------------------------------------ the draft with fair scheduling
\* time passes; the draft page of a viewer calls timeoutDraftAction when
\* its timer is at 0, and the call arrives; a setDraftReady invocation that
\* has read the session goes on to its update; submissions keep being made
DraftFairSpec ==
  /\ DraftInit
  /\ [][DraftNext]_vars
  /\ WF_vars(Tick)
  /\ WF_vars(\E userId \in PageViewers, draftId \in DOMAIN drafts :
               AutoTimeoutSent(userId, draftId))
  /\ WF_vars(\E s \in Slots : AutoTimeoutArrives(s))
  /\ WF_vars(\E s \in Slots : SetDraftReadyUpdate(s))
  /\ WF_vars(\E userId \in ActionCallers, draftId \in DOMAIN drafts :
               \E championId \in SubmitInputs(drafts[draftId], userId) :
                 MakeDraftAction(userId, draftId, championId))

\* ------------------------------------------------------------------ claims: termination
isTerminal(status) == status \in {"completed", "cancelled"}

\* C30: every session eventually reaches status completed or cancelled,
\* given that the clock, the timeout calls and the submissions are
\* scheduled fairly.
C30_EventuallyTerminal ==
  <>(\A id \in DOMAIN drafts : isTerminal(drafts[id].status))

\* what the timeout does reclaim: a session in status banning or picking
\* eventually leaves that status or reaches a terminal one
runningIsReclaimed ==
  (Draft1.status \in {"banning", "picking"}) ~> isTerminal(Draft1.status)

\* ------------------------------------------------------------------ claims: leaving and matching
\* C31: every member of a session holds a queue entry at the start of the
\* step that creates the session: a user whose leaveQueue call has returned
\* before that step is not a member. Stated of the first session, before
\* which only leaveQueue deletes an entry.
C31_MembersQueuedAtCommit ==
  [][(drafts = <<>> /\ drafts' # <<>>) =>
       \A userId \in memberIds(drafts'[1]) : queue[userId] # NoEntry]_vars

\* C32: a joinQueue call that returns matchFound true with a draftId
\* returns it to a member of the session of that id.
C32_MatchFoundForMember ==
  (lastCall.op = "join" /\ lastCall.matchFound) =>
    lastCall.caller \in memberIds(drafts[lastCall.draftId])

\* ------------------------------------------------------------------ claims: the rosters of a draft
\* C33: in a session whose status is banning, picking or completed all ten
\* players have their ready flag true.
C33_RunsOnlyWhenAllReady ==
  \A id \in DOMAIN drafts :
    drafts[id].status \in {"banning", "picking", "completed"} =>
      everyReady(drafts[id].blueTeam, drafts[id].redTeam)

\* the selections of the resolved picks of the team, in the order of the actions
RECURSIVE picksFrom(_, _, _)
picksFrom(actions, team, i) ==
  IF i > Len(actions) THEN <<>>
  ELSE (IF actions[i].type = "pick" /\ actions[i].team = team /\ isResolved(actions[i])
        THEN <<actions[i].championId>> ELSE <<>>) \o picksFrom(actions, team, i + 1)

resolvedPicks(actions, team) == picksFrom(actions, team, 1)

\* the first players of the roster hold the selections of the picks, in order,
\* and the others hold none
holdsPicks(teamPlayers, picks) ==
  \A i \in DOMAIN teamPlayers :
    teamPlayers[i].championId = (IF i <= Len(picks) THEN picks[i] ELSE NoChampion)

\* C34: of each team the i-th player in roster order holds the selection of
\* the team's i-th resolved pick and the players after them hold none, and no
\* step takes a selection from a player.
C34_PicksMatchRosters ==
  [][\A id \in DOMAIN drafts :
       /\ holdsPicks(drafts'[id].blueTeam, resolvedPicks(drafts'[id].actions, "blue"))
       /\ holdsPicks(drafts'[id].redTeam, resolvedPicks(drafts'[id].actions, "red"))
       /\ \A i \in DOMAIN allPlayers(drafts[id]) :
            allPlayers(drafts[id])[i].championId # NoChampion
              => allPlayers(drafts'[id])[i].championId = allPlayers(drafts[id])[i].championId]_vars

\* ------------------------------------------------------------------ claims: the actions of a draft
\* the selections of the resolved bans
resolvedBans(actions) ==
  {actions[i].championId : i \in {j \in DOMAIN actions : actions[j].type = "ban"
                                                          /\ isResolved(actions[j])}}

\* C35: in every session every action below the phase index is resolved and
\* not active, every action above it is unresolved and not active, and the
\* banned set is the set of the selections of the resolved bans.
C35_ResolvedActionsArePrefix ==
  \A id \in DOMAIN drafts :
    /\ \A i \in DOMAIN drafts[id].actions :
         /\ i - 1 < drafts[id].currentPhase
              => isResolved(drafts[id].actions[i]) /\ ~drafts[id].actions[i].isActive
         /\ i - 1 > drafts[id].currentPhase
              => ~isResolved(drafts[id].actions[i]) /\ ~drafts[id].actions[i].isActive
    /\ drafts[id].bannedChampions = resolvedBans(drafts[id].actions)

\* the six bans and some picks are resolved
C35_Witness ==
  /\ Draft1.currentPhase > 7
  /\ Cardinality(Draft1.bannedChampions) = 6
  /\ isResolved(Draft1.actions[7])

\* ------------------------------------------------------------------ claims: the rosters of a session
\* five players, one of each role in the order of the roles, all of the team
rosterOf(teamPlayers, team) ==
  /\ Len(teamPlayers) = Len(Roles)
  /\ \A i \in DOMAIN teamPlayers :
       teamPlayers[i].role = Roles[i] /\ teamPlayers[i].team = team

\* C36: every session has a blue and a red roster of 5 players, each with
\* one player of each role in the order top, jungle, mid, adc, support,
\* every player's team is the one of its roster, and the 10 identities are
\* distinct.
C36_RostersWellFormed ==
  \A id \in DOMAIN drafts :
    /\ rosterOf(drafts[id].blueTeam, "blue")
    /\ rosterOf(drafts[id].redTeam, "red")
    /\ Cardinality(memberIds(drafts[id])) = 10

\* joinQueue calls that overlapped have made two sessions
C36_Witness ==
  /\ Len(drafts) = 2
  /\ lastCall.op = "join" /\ lastCall.matchFound

\* ------------------------------------------------------------------ claims: ratings and their history
\* C37: of every rating document, the games played are the wins plus the
\* losses and the number of history entries, the rating is the rating after
\* of the last history entry, and the rating before of every entry is the
\* rating after of the entry before it.
C37_RatingFollowsHistory ==
  \A u \in Identities :
    ratings[u].exists =>
      /\ ratings[u].gamesPlayed = ratings[u].wins + ratings[u].losses
      /\ ratings[u].gamesPlayed = Len(ratings[u].history)
      /\ ratings[u].history # <<>> =>
           ratings[u].mmr = ratings[u].history[Len(ratings[u].history)].mmrAfter
      /\ \A i \in DOMAIN ratings[u].history :
           i > 1 => ratings[u].history[i].mmrBefore = ratings[u].history[i - 1].mmrAfter

\* ------------------------------------------------------------------ three joins at once
\* users 13..21 joined before user 1 (their times count back from that join)
\* and have no rating document: two more each for top, jungle, mid and adc,
\* and one support
EarlierQueued == 13..21
EarlierEntry(userId) ==
  [odId |-> userId,
   role |-> IF userId = 21 THEN "support" ELSE Roles[((userId - 13) \div 2) + 1],
   mmr |-> DefaultMmr, joinedAt |-> userId - 22]

\* the supports 9, 10 and 11 may all be inside joinQueue at the same time
ThreeJoiners == 9..11

\* seventeen users wait, one support among them: no match can be formed
ThreeJoinsInit ==
  /\ queue = [u \in 1..21 |-> IF u <= InitiallyQueued THEN QueueEntry(u, u)
                               ELSE IF u \in EarlierQueued THEN EarlierEntry(u)
                               ELSE NoEntry]
  /\ drafts = <<>>
  /\ calls = [s \in 1..Cardinality(ThreeJoiners) |-> Idle]
  /\ lastCall = NoResponse
  /\ readyOk = {}
  /\ queueClock = InitiallyQueued
  /\ ratings = [u \in Identities |-> NoRating]
  /\ matches = <<>>
  /\ calc = NoCalc

ThreeJoinsNext ==
  \/ \E userId \in ThreeJoiners : JoinQueueCalled(userId, RequestedRole[userId])
  \/ \E s \in DOMAIN calls : JoinQueueCheckDrafts(s)
  \/ \E s \in DOMAIN calls : JoinQueueSetEntry(s)
  \/ \E s \in DOMAIN calls : JoinQueueTryMatch(s)
  \/ \E s \in DOMAIN calls : JoinQueueCommit(s)

ThreeJoinsSpec == ThreeJoinsInit /\ [][ThreeJoinsNext]_vars

\* no joinQueue call is between its first read and its return
noJoinInProgress == \A s \in DOMAIN calls : calls[s].op # "join"

\* C38: whenever no joinQueue call is in progress, the queue holds no set of
\* entries from which a match can be formed: some role has fewer than two
\* entries.
C38_NoFormableMatchWaits ==
  noJoinInProgress => ~matchPossible(QueueSnapshot(queue))

\* with at most two joins in flight and twelve users the same statement
\* is checked under QueueSpec
twoJoinsLeaveNoMatch ==
  (Cardinality(DOMAIN calls) <= 2 /\ noJoinInProgress) => ~matchPossible(QueueSnapshot(queue))

\* ------------------------------------------------------------------ claims: the sign of a change
\* the sign of a change is the one of the outcome
signFollows(didWin, change) == IF didWin THEN change > 0 ELSE change < 0

\* the changes at the ends of both multipliers' ranges
extremeChanges(didWin, isPlacement) ==
  {Round(unroundedChange(didWin, performanceMultiplier, opponentMult, isPlacement)) :
     performanceMultiplier \in {MIN_PERFORMANCE_MULTIPLIER, MAX_PERFORMANCE_MULTIPLIER},
     opponentMult \in {MIN_OPPONENT_MULTIPLIER, MAX_OPPONENT_MULTIPLIER}}

\* C39: the change of a player on the winning team is above 0 and the change
\* of a player on the losing team is below 0, in placement and outside it:
\* for every change calculated, and at the ends of the ranges of the
\* performance and the opponent multiplier.
C39_SignFollowsOutcome ==
  /\ \A didWin \in BOOLEAN, isPlacement \in BOOLEAN :
       \A change \in extremeChanges(didWin, isPlacement) : signFollows(didWin, change)
  /\ (calc.given /\ calc.outside.done) =>
       signFollows(calc.playerStats.team = calc.context.winner, calc.outside.change)
  /\ (calc.given /\ calc.placement.done) =>
       signFollows(calc.playerStats.team = calc.context.winner, calc.placement.change)

\* a loser with the smallest performance multiplier against a higher rated
\* team, and both its changes
C39_Witness ==
  /\ calc.given /\ calc.outside.done /\ calc.placement.done
  /\ calc.playerStats.team # calc.context.winner
  /\ calc.outside.multiplier = MIN_PERFORMANCE_MULTIPLIER
  /\ calc.opponentAvg > calc.playerStats.mmrAtTime
  /\ calc.outside.change < 0 /\ calc.outside.change > -BASE_CHANGE
  /\ calc.placement.change < 0

\* ------------------------------------------------------------------ claims: leaving the queue
\* a step in which leaveQueue returns to that caller: no step of joinQueue
\* answers a leave, and every other step changes an invocation
leaveReturned(userId) ==
  /\ lastCall'.op = "leave" /\ lastCall'.caller = userId
  /\ calls' = calls

\* C40: leaveQueue succeeds, removes the caller's queue entry if there is
\* one and leaves every other queue entry, every draft session and every
\* rating as they were; for a caller without an entry it changes nothing.
C40_LeaveRemovesOwnEntryOnly ==
  [][\A userId \in Identities :
       leaveReturned(userId) =>
         /\ lastCall'.message = "ok"
         /\ queue'[userId] = NoEntry
         /\ \A other \in DOMAIN queue \ {userId} : queue'[other] = queue[other]
         /\ drafts' = drafts /\ ratings' = ratings /\ matches' = matches
         /\ queue[userId] = NoEntry => queue' = queue]_vars

\* one user has joined, no session was formed and the entry is gone again:
\* a leaveQueue call removed it; the last call was a leave
C40_Witness ==
  /\ lastCall.op = "leave" /\ lastCall.message = "ok"
  /\ queueClock = InitiallyQueued + 1
  /\ drafts = <<>> /\ noJoinInProgress
  /\ queuedIds = 1..InitiallyQueued

====
